---- MODULE Spec2Model ----
(***************************************************************************)
(* Model of the MCP weather server (wfnian/mcp_server): the tool registry  *)
(* and dispatcher of server_origin.py, the ToolHandler base class and the  *)
(* eight tool handlers with the services they call.                        *)
(*                                                                         *)
(* Python values are modelled as follows.                                  *)
(*   - a str / f-string is a sequence of string tokens, concatenated with  *)
(*     \o, so that "the text contains the city" is a checkable statement;  *)
(*   - a dict that keeps insertion order (tool_handlers) is a sequence of  *)
(*     [key, val] entries;                                                 *)
(*   - a handler instance is a record [cls, name, id], id being the        *)
(*     object's identity (the n-th handler constructed).                   *)
(***************************************************************************)
EXTENDS Integers, Sequences, FiniteSets, TLC

VARIABLES
    tool_handlers,  \* server_origin.py:50   the global registry dict
    calls,          \* history: the handlers passed to add_tool_handler, in call order
    pc,             \* position of main(): "boot" before register_all_tools, then "serving"
    ret,            \* what the last registry operation returned to its caller
    inv,            \* the call_tool invocation in flight: its frame, its effects, its result
    val,            \* a validate_required_args call made on its own: inputs and outcome
    fn              \* a call of one of the pure helper functions: inputs and result

vars == <<tool_handlers, calls, pc, ret, inv, val, fn>>

-----------------------------------------------------------------------------
(* Bounds of the model *)

MaxAdds == 2            \* direct add_tool_handler calls explored
MaxRegisterAll == 1     \* register_all_tools calls explored
MaxArgKeys == 3         \* keys in the arguments mapping of a call_tool invocation
MaxRequired == 3        \* length of the required list given to validate_required_args
MaxTimes == 3           \* length of the hourly series given to get_closest_utc_index

-----------------------------------------------------------------------------
(* Generic helpers *)

Range(s) == {s[i] : i \in 1..Len(s)}

RECURSIVE SelectSeqIdx(_, _, _)
\* the sub-sequence of s of the elements whose index is in keep
SelectSeqIdx(s, keep, i) ==
    IF i > Len(s) THEN <<>>
    ELSE (IF i \in keep THEN <<s[i]>> ELSE <<>>) \o SelectSeqIdx(s, keep, i + 1)

-----------------------------------------------------------------------------
(* The eight handler classes, in the order register_all_tools builds them *)

ToolHandlerClasses ==
    << "GetCurrentWeatherToolHandler",
       "GetWeatherByDateRangeToolHandler",
       "GetWeatherDetailsToolHandler",
       "GetCurrentDateTimeToolHandler",
       "GetTimeZoneInfoToolHandler",
       "ConvertTimeToolHandler",
       "GetAirQualityToolHandler",
       "GetAirQualityDetailsToolHandler" >>

\* a copy-paste slip: the details handler keeps the name of the class it was copied from
tool_name_copied(cls) ==
    CASE cls = "GetCurrentWeatherToolHandler"     -> "get_current_weather"
      [] cls = "GetWeatherByDateRangeToolHandler" -> "get_weather_byDateTimeRange"
      [] cls = "GetWeatherDetailsToolHandler"     -> "get_weather_details"
      [] cls = "GetCurrentDateTimeToolHandler"    -> "get_current_datetime"
      [] cls = "GetTimeZoneInfoToolHandler"       -> "get_timezone_info"
      [] cls = "ConvertTimeToolHandler"           -> "convert_time"
      [] cls = "GetAirQualityToolHandler"         -> "get_air_quality"
      [] cls = "GetAirQualityDetailsToolHandler"  -> "get_air_quality"

\* the literal each class passes to super().__init__
tool_name(cls) ==
    CASE cls = "GetCurrentWeatherToolHandler"     -> "get_current_weather"
      [] cls = "GetWeatherByDateRangeToolHandler" -> "get_weather_byDateTimeRange"
      [] cls = "GetWeatherDetailsToolHandler"     -> "get_weather_details"
      [] cls = "GetCurrentDateTimeToolHandler"    -> "get_current_datetime"
      [] cls = "GetTimeZoneInfoToolHandler"       -> "get_timezone_info"
      [] cls = "ConvertTimeToolHandler"           -> "convert_time"
      [] cls = "GetAirQualityToolHandler"         -> "get_air_quality"
      [] cls = "GetAirQualityDetailsToolHandler"  -> "get_air_quality_details"

\* ToolHandler.__init__: self.name = tool_name; id is the identity of the new object
NewHandler(cls, id) == [cls |-> cls, name |-> tool_name(cls), id |-> id]

\* Python's None where a handler is expected
NoHandler == [cls |-> "None", name |-> "", id |-> 0]

\* a schema that requires a field it does not document
schema_required_undocumented(cls) ==
    CASE cls = "GetCurrentWeatherToolHandler"     -> <<"city">>
      [] cls = "GetWeatherByDateRangeToolHandler" -> <<"city", "start_date", "end_date">>
      [] cls = "GetWeatherDetailsToolHandler"     -> <<"city">>
      [] cls = "GetCurrentDateTimeToolHandler"    -> <<"timezone_name">>
      [] cls = "GetTimeZoneInfoToolHandler"       -> <<"timezone">>
      [] cls = "ConvertTimeToolHandler"           -> <<"datetime_str", "from_timezone", "to_timezone">>
      [] cls = "GetAirQualityToolHandler"         -> <<"city">>
      [] cls = "GetAirQualityDetailsToolHandler"  -> <<"city">>

\* inputSchema["required"] of each class's get_tool_description
schema_required(cls) ==
    CASE cls = "GetCurrentWeatherToolHandler"     -> <<"city">>
      [] cls = "GetWeatherByDateRangeToolHandler" -> <<"city", "start_date", "end_date">>
      [] cls = "GetWeatherDetailsToolHandler"     -> <<"city">>
      [] cls = "GetCurrentDateTimeToolHandler"    -> <<"timezone_name">>
      [] cls = "GetTimeZoneInfoToolHandler"       -> <<"timezone_name">>
      [] cls = "ConvertTimeToolHandler"           -> <<"datetime_str", "from_timezone", "to_timezone">>
      [] cls = "GetAirQualityToolHandler"         -> <<"city">>
      [] cls = "GetAirQualityDetailsToolHandler"  -> <<"city">>

\* the keys of inputSchema["properties"] of each class's get_tool_description
schema_properties(cls) ==
    CASE cls = "GetCurrentWeatherToolHandler"     -> {"city"}
      [] cls = "GetWeatherByDateRangeToolHandler" -> {"city", "start_date", "end_date"}
      [] cls = "GetWeatherDetailsToolHandler"     -> {"city", "include_forecast"}
      [] cls = "GetCurrentDateTimeToolHandler"    -> {"timezone_name"}
      [] cls = "GetTimeZoneInfoToolHandler"       -> {"timezone_name"}
      [] cls = "ConvertTimeToolHandler"           -> {"datetime_str", "from_timezone", "to_timezone"}
      [] cls = "GetAirQualityToolHandler"         -> {"city", "variables"}
      [] cls = "GetAirQualityDetailsToolHandler"  -> {"city", "variables"}

\* get_tool_description: Tool(name=self.name, inputSchema={...})
get_tool_description(h) ==
    [ name        |-> h.name,
      handler     |-> h.id,
      inputSchema |-> [ type       |-> "object",
                        properties |-> schema_properties(h.cls),
                        required   |-> schema_required(h.cls) ] ]

-----------------------------------------------------------------------------
(* The registry: server_origin.py:49-99 *)

DictHas(d, k) == \E i \in 1..Len(d) : d[i].key = k
DictIndex(d, k) == CHOOSE i \in 1..Len(d) : d[i].key = k
DictKeys(d) == [i \in 1..Len(d) |-> d[i].key]
DictValues(d) == [i \in 1..Len(d) |-> d[i].val]

\* d[k] = v of an insertion-ordered dict: an existing key keeps its position
DictSet(d, k, v) ==
    IF DictHas(d, k)
    THEN [d EXCEPT ![DictIndex(d, k)] = [key |-> k, val |-> v]]
    ELSE Append(d, [key |-> k, val |-> v])

\* a registry that keeps the first handler registered under a name
add_tool_handler_first_wins(th, h) ==
    IF DictHas(th, h.name) THEN th ELSE Append(th, [key |-> h.name, val |-> h])

\* a registry that moves a re-registered name to the end
add_tool_handler_move_to_end(th, h) ==
    Append(SelectSeq(th, LAMBDA e : e.key # h.name), [key |-> h.name, val |-> h])

\* tool_handlers[tool_handler.name] = tool_handler
add_tool_handler(th, h) == DictSet(th, h.name, h)

\* tool_handlers.get(name)
get_tool_handler(th, name) ==
    IF DictHas(th, name) THEN th[DictIndex(th, name)].val ELSE NoHandler

RECURSIVE register_from(_, _, _)
\* the add_tool_handler calls of register_all_tools from the i-th on; n handlers exist already
register_from(th, i, n) ==
    IF i > Len(ToolHandlerClasses) THEN th
    ELSE register_from(add_tool_handler(th, NewHandler(ToolHandlerClasses[i], n + i)), i + 1, n)

\* register_all_tools: eight add_tool_handler calls on fresh handlers
register_all_tools(th, n) == register_from(th, 1, n)

\* the handlers register_all_tools constructs when n handlers exist already
AllToolsHandlers(n) ==
    [i \in 1..Len(ToolHandlerClasses) |-> NewHandler(ToolHandlerClasses[i], n + i)]

\* list_tools: [handler.get_tool_description() for handler in tool_handlers.values()]
list_tools(th) ==
    [i \in 1..Len(th) |-> get_tool_description(DictValues(th)[i])]

-----------------------------------------------------------------------------
(* Python values of tool arguments: ty is the type, v is str(value), items  *)
(* are the elements of a list                                                *)

PyStr(s) == [ty |-> "str", v |-> s, items |-> <<>>]
PyNone == [ty |-> "none", v |-> "None", items |-> <<>>]
PyBool(b) == [ty |-> "bool", v |-> IF b THEN "True" ELSE "False", items |-> <<>>]
PyList(text, items) == [ty |-> "list", v |-> text, items |-> items]

\* str(x), as an f-string renders x
Str(x) == x.v

\* bool(x), as `if x:` tests x
Truthy(x) ==
    CASE x.ty = "bool" -> x.v = "True"
      [] x.ty = "none" -> FALSE
      [] x.ty = "list" -> x.items # <<>>
      [] OTHER         -> x.v # ""

RECURSIVE Join(_, _)
\* sep.join(parts), as tokens
Join(parts, sep) ==
    IF parts = <<>> THEN <<>>
    ELSE IF Len(parts) = 1 THEN <<parts[1]>>
    ELSE <<parts[1], sep>> \o Join(Tail(parts), sep)

\* text t contains the tokens of part, contiguously
Contains(t, part) ==
    \E i \in 1..(Len(t) - Len(part) + 1) : SubSeq(t, i, i + Len(part) - 1) = part

\* json.dumps escapes of one token of a str: with ensure_ascii (the default)
\* every character beyond ASCII becomes a \uXXXX escape
json_escape(token) == IF token = "Zürich" THEN "Z\\u00fcrich" ELSE token

\* json.dumps(s) of a str given as tokens
json_string(text) ==
    <<"\"">> \o [i \in 1..Len(text) |-> json_escape(text[i])] \o <<"\"">>

\* json.dumps(x) of an argument value used as a JSON member
json_value(x) ==
    CASE x.ty = "none" -> <<"null">>
      [] x.ty = "bool" -> <<IF x.v = "True" THEN "true" ELSE "false">>
      [] OTHER         -> json_string(<<x.v>>)

-----------------------------------------------------------------------------
(* Exceptions *)

Exc(type, msg) == [type |-> type, msg |-> msg]
NoExc == Exc("", <<>>)

\* isinstance(e, ValueError): json.JSONDecodeError derives from ValueError
IsValueError(e) == e.type \in {"ValueError", "JSONDecodeError"}

\* isinstance(e, Exception): every exception the handlers can meet derives from Exception
IsException(e) ==
    e.type \in {"ValueError", "JSONDecodeError", "RuntimeError", "KeyError", "IndexError",
                "TypeError", "AttributeError", "McpError", "RequestError"}

-----------------------------------------------------------------------------
(* ToolHandler.validate_required_args: toolhandler.py:65-78 *)

\* a validation that stops at the first missing field
validate_required_args_first_only(args, required_fields) ==
    LET missing_fields == SelectSeq(required_fields, LAMBDA field : field \notin DOMAIN args) IN
      IF missing_fields # <<>>
      THEN Exc("RuntimeError", <<"Missing required arguments: ", missing_fields[1]>>)
      ELSE NoExc

\* a validation that counts a field with a null or empty value as missing
validate_required_args_truthy(args, required_fields) ==
    LET missing_fields ==
          SelectSeq(required_fields,
                    LAMBDA field : field \notin DOMAIN args \/ ~Truthy(args[field])) IN
      IF missing_fields # <<>>
      THEN Exc("RuntimeError",
               <<"Missing required arguments: ">> \o Join(missing_fields, ", "))
      ELSE NoExc

\* the exception validate_required_args raises, NoExc when it returns
validate_required_args(args, required_fields) ==
    LET missing_fields == SelectSeq(required_fields, LAMBDA field : field \notin DOMAIN args) IN
      IF missing_fields # <<>>
      THEN Exc("RuntimeError",
               <<"Missing required arguments: ">> \o Join(missing_fields, ", "))
      ELSE NoExc

\* a range handler that validates the city alone
run_tool_required_city_only(cls) ==
    CASE cls = "GetCurrentWeatherToolHandler"     -> <<"city">>
      [] cls = "GetWeatherByDateRangeToolHandler" -> <<"city">>
      [] cls = "GetWeatherDetailsToolHandler"     -> <<"city">>
      [] cls = "GetCurrentDateTimeToolHandler"    -> <<"timezone_name">>
      [] cls = "GetTimeZoneInfoToolHandler"       -> <<"timezone_name">>
      [] cls = "ConvertTimeToolHandler"           -> <<"datetime_str", "from_timezone", "to_timezone">>
      [] cls = "GetAirQualityToolHandler"         -> <<"city">>
      [] cls = "GetAirQualityDetailsToolHandler"  -> <<"city">>

\* the list each class's run_tool passes to validate_required_args
run_tool_required(cls) ==
    CASE cls = "GetCurrentWeatherToolHandler"     -> <<"city">>
      [] cls = "GetWeatherByDateRangeToolHandler" -> <<"city", "start_date", "end_date">>
      [] cls = "GetWeatherDetailsToolHandler"     -> <<"city">>
      [] cls = "GetCurrentDateTimeToolHandler"    -> <<"timezone_name">>
      [] cls = "GetTimeZoneInfoToolHandler"       -> <<"timezone_name">>
      [] cls = "ConvertTimeToolHandler"           -> <<"datetime_str", "from_timezone", "to_timezone">>
      [] cls = "GetAirQualityToolHandler"         -> <<"city">>
      [] cls = "GetAirQualityDetailsToolHandler"  -> <<"city">>

-----------------------------------------------------------------------------
(* Inputs of a call_tool invocation *)

ArgKeys ==
    {"city", "start_date", "end_date", "include_forecast", "timezone_name",
     "datetime_str", "from_timezone", "to_timezone", "variables"}

TimezoneValues == {PyStr("UTC"), PyStr("America/New_York"), PyStr("Mars/Phobos")}

\* the values a caller may send under each key
ArgValues(k) ==
    CASE k = "city"             -> {PyStr("Paris"), PyStr("Zürich"), PyNone}
      [] k = "start_date"       -> {PyStr("2024-01-01")}
      [] k = "end_date"         -> {PyStr("2024-01-02")}
      [] k = "include_forecast" -> {PyBool(TRUE), PyBool(FALSE)}
      [] k = "timezone_name"    -> TimezoneValues
      [] k = "datetime_str"     -> {PyStr("now"), PyStr("NOW"), PyStr("2024-01-15T14:30:00"),
                                    PyStr("2024-01-15T14:30:00Z"), PyStr("garbage"), PyNone}
      [] k = "from_timezone"    -> TimezoneValues
      [] k = "to_timezone"      -> {PyStr("UTC"), PyStr("America/New_York"),
                                    PyStr("Atlantis/Capital")}
      [] k = "variables"        -> {PyList("['pm10', 'pm2_5']", <<"pm10", "pm2_5">>), PyNone}

EmptyMap == [k \in {} |-> PyNone]

RECURSIVE MapsOver(_)
\* every mapping with key set S
MapsOver(S) ==
    IF S = {} THEN {EmptyMap}
    ELSE LET k == CHOOSE x \in S : TRUE IN
           { [x \in S |-> IF x = k THEN v ELSE m[x]] :
               m \in MapsOver(S \ {k}), v \in ArgValues(k) }

\* the arguments values of call_tool: key-value mappings and values that are none
ArgumentValues ==
    { [kind |-> "dict", d |-> m] :
        m \in UNION { MapsOver(S) : S \in {T \in SUBSET ArgKeys : Cardinality(T) <= MaxArgKeys} } }
    \cup { [kind |-> k, d |-> EmptyMap] : k \in {"none", "list", "str"} }

NoArguments == [kind |-> "none", d |-> EmptyMap]

-----------------------------------------------------------------------------
(* Upstream responses: a network error, or a status with a body *)

Response(err, status, body) == [err |-> err, status |-> status, body |-> body]

\* the JSON bodies the geocoding API may answer with
GeoBodies ==
    {"not_json", "no_results_key", "empty_results", "result_not_object",
     "result_without_latitude", "ok", "ok_elsewhere"}
\* the JSON bodies the forecast API may answer with
WeatherBodies ==
    {"not_json", "no_hourly", "empty_time", "short_series", "null_values", "ok"}
\* the JSON bodies the air-quality API may answer with
AirBodies == {"not_json", "no_hourly", "empty_time", "ok"}

Responses(bodies) ==
    {Response(TRUE, 0, ""), Response(FALSE, 500, "")}
    \cup {Response(FALSE, 200, b) : b \in bodies}

NoCoords == [lat |-> "", lon |-> ""]
NoData == [kind |-> "none", nulls |-> FALSE, forecast |-> FALSE, uv |-> 0]
NoRange == [start_date |-> "", end_date |-> ""]

BASE_GEO_URL == "https://geocoding-api.open-meteo.com/v1/search"
BASE_WEATHER_URL == "https://api.open-meteo.com/v1/forecast"
BASE_AIR_QUALITY_URL == "https://air-quality-api.open-meteo.com/v1/air-quality"

-----------------------------------------------------------------------------
(* The frame of a call_tool invocation *)

Idle ==
    [ st        |-> "idle",       \* idle, await_geo, await_weather, await_air, done
      name      |-> "",
      arguments |-> NoArguments,
      handler   |-> NoHandler,
      phase     |-> "",           \* the service call that is waiting: current, range, air
      coords    |-> NoCoords,
      range     |-> NoRange,
      current   |-> NoData,
      http      |-> <<>>,         \* the outbound requests issued, in order
      answers   |-> <<>>,         \* what came back for each request, in order
      tz        |-> 0,            \* ZoneInfo lookups made
      clock     |-> 0,            \* clock reads made
      log       |-> <<>>,
      exc       |-> NoExc,        \* the failure that ended the invocation, if any
      caught    |-> "",           \* run_tool or call_tool: the boundary that caught it
      outcome   |-> "none",       \* returned or raised
      result    |-> <<>> ]

TextContent(text) == [type |-> "text", text |-> text]

LogLine(v, level, msg) ==
    [v EXCEPT !.log = Append(@, [level |-> level, msg |-> msg, keys |-> {}])]

\* an exception boundary that lets everything but ValueError through
call_tool_catches_value_error_only(e) == IsValueError(e)

\* server_origin.py:254 `except Exception as e`
call_tool_catches(e) == IsException(e)

\* call_tool returns what run_tool returned
call_tool_return(v, result) ==
    [ LogLine(v, "info", <<"Tool ", v.name, " executed successfully">>)
        EXCEPT !.st = "done", !.outcome = "returned", !.result = result ]

\* an exception e reaches the except clause of call_tool
call_tool_except(v, e) ==
    IF call_tool_catches(e)
    THEN [ LogLine(LogLine(v, "error", <<"Error executing tool ", v.name, ": ">> \o e.msg),
                   "error", <<"Full traceback: ">> \o e.msg)
             EXCEPT !.st = "done", !.outcome = "returned", !.exc = e, !.caught = "call_tool",
                    !.result = << TextContent(<<"Error executing tool '", v.name, "': ">>
                                              \o e.msg) >> ]
    ELSE [v EXCEPT !.st = "done", !.outcome = "raised", !.exc = e]

SimpleCityHandlers ==
    {"GetCurrentWeatherToolHandler", "GetWeatherByDateRangeToolHandler",
     "GetAirQualityToolHandler"}
DetailsHandlers == {"GetWeatherDetailsToolHandler", "GetAirQualityDetailsToolHandler"}
CityHandlers == SimpleCityHandlers \cup DetailsHandlers

\* handlers that render every failure as an unexpected one
handler_error_text_unexpected_only(cls, e) ==
    CASE cls \in SimpleCityHandlers -> <<"Unexpected error occurred: ">> \o e.msg
      [] cls \in DetailsHandlers ->
           <<"{\n  \"error\": ">>
           \o json_string(<<"Unexpected error occurred: ">> \o e.msg) \o <<"\n}">>
      [] cls = "GetCurrentDateTimeToolHandler" -> <<"Error getting current time: ">> \o e.msg
      [] cls = "GetTimeZoneInfoToolHandler"    -> <<"Error getting timezone info: ">> \o e.msg
      [] cls = "ConvertTimeToolHandler"        -> <<"Error converting time: ">> \o e.msg

\* the text each run_tool returns from its except clauses
handler_error_text(cls, e) ==
    CASE cls \in SimpleCityHandlers ->
           IF IsValueError(e) THEN <<"Error: ">> \o e.msg
           ELSE <<"Unexpected error occurred: ">> \o e.msg
      [] cls \in DetailsHandlers ->
           IF IsValueError(e)
           THEN <<"{\n  \"error\": ">> \o json_string(e.msg) \o <<"\n}">>
           ELSE <<"{\n  \"error\": ">>
                \o json_string(<<"Unexpected error occurred: ">> \o e.msg) \o <<"\n}">>
      [] cls = "GetCurrentDateTimeToolHandler" -> <<"Error getting current time: ">> \o e.msg
      [] cls = "GetTimeZoneInfoToolHandler"    -> <<"Error getting timezone info: ">> \o e.msg
      [] cls = "ConvertTimeToolHandler"        -> <<"Error converting time: ">> \o e.msg

\* the line each run_tool logs from its except clauses
handler_error_log(cls, e) ==
    CASE cls \in {"GetCurrentWeatherToolHandler", "GetWeatherByDateRangeToolHandler",
                  "GetWeatherDetailsToolHandler"} ->
           IF IsValueError(e) THEN <<"Weather service error: ">> \o e.msg
           ELSE <<"Unexpected error in ", tool_name(cls), ": ">> \o e.msg
      [] cls \in {"GetAirQualityToolHandler", "GetAirQualityDetailsToolHandler"} ->
           IF IsValueError(e) THEN <<"Air quality service error: ">> \o e.msg
           ELSE <<"Unexpected error in ", tool_name(cls), ": ">> \o e.msg
      [] OTHER -> <<"Error in ", tool_name(cls), ": ">> \o e.msg

\* the last except clause of every run_tool is `except Exception`
run_tool_catches(cls, e) == IsException(e)

\* an exception e reaches the except clauses of run_tool
run_tool_except(v, e) ==
    IF run_tool_catches(v.handler.cls, e)
    THEN call_tool_return(
            [ LogLine(v, "error", handler_error_log(v.handler.cls, e))
                EXCEPT !.exc = e, !.caught = "run_tool" ],
            << TextContent(handler_error_text(v.handler.cls, e)) >>)
    ELSE call_tool_except(v, e)

\* `await client.get(url)` resumes with r: a response, or a raised RequestError
Receive(v, r) == [v EXCEPT !.answers = Append(@, r)]

\* client.get(url): the request leaves and the coroutine waits for the response
Send(v, api, url, st, phase) ==
    [v EXCEPT !.http = Append(@, [api |-> api, url |-> url]), !.st = st, !.phase = phase]

-----------------------------------------------------------------------------
(* Banding and rounding helpers. A float is modelled in fixed point:       *)
(* concentrations in tenths of a ug/m3, degrees and UV indices in quarters *)
(* (every quarter is exactly representable as a binary float)              *)

Tenths(n) == 10 * n
Quarters(n) == 4 * n

\* a PM2.5 banding whose cutoffs belong to the upper band
get_pm25_level_exclusive(pm25) ==
    IF pm25 < Tenths(12) THEN "Good"
    ELSE IF pm25 < Tenths(35) THEN "Moderate"
    ELSE IF pm25 < Tenths(55) THEN "Unhealthy for Sensitive Groups"
    ELSE IF pm25 < Tenths(150) THEN "Unhealthy"
    ELSE IF pm25 < Tenths(250) THEN "Very Unhealthy"
    ELSE "Hazardous"

\* AirQualityService._get_pm25_level, pm25 in tenths
get_pm25_level(pm25) ==
    IF pm25 <= Tenths(12) THEN "Good"
    ELSE IF pm25 <= Tenths(35) THEN "Moderate"
    ELSE IF pm25 <= Tenths(55) THEN "Unhealthy for Sensitive Groups"
    ELSE IF pm25 <= Tenths(150) THEN "Unhealthy"
    ELSE IF pm25 <= Tenths(250) THEN "Very Unhealthy"
    ELSE "Hazardous"

\* a PM10 banding that took over the first cutoffs of the PM2.5 one
get_pm10_level_pm25_cutoffs(pm10) ==
    IF pm10 <= Tenths(12) THEN "Good"
    ELSE IF pm10 <= Tenths(35) THEN "Moderate"
    ELSE IF pm10 <= Tenths(254) THEN "Unhealthy for Sensitive Groups"
    ELSE IF pm10 <= Tenths(354) THEN "Unhealthy"
    ELSE IF pm10 <= Tenths(424) THEN "Very Unhealthy"
    ELSE "Hazardous"

\* AirQualityService._get_pm10_level, pm10 in tenths
get_pm10_level(pm10) ==
    IF pm10 <= Tenths(54) THEN "Good"
    ELSE IF pm10 <= Tenths(154) THEN "Moderate"
    ELSE IF pm10 <= Tenths(254) THEN "Unhealthy for Sensitive Groups"
    ELSE IF pm10 <= Tenths(354) THEN "Unhealthy"
    ELSE IF pm10 <= Tenths(424) THEN "Very Unhealthy"
    ELSE "Hazardous"

\* a rounding of num/den to the nearest integer, halves going up
round_half_up(num, den) == (2 * num + den) \div (2 * den)

\* Python's round(num/den): to the nearest integer, halves going to the even one
round(num, den) ==
    LET k == num \div den
        r == num % den
    IN  IF 2 * r < den THEN k
        ELSE IF 2 * r > den THEN k + 1
        ELSE IF k % 2 = 0 THEN k ELSE k + 1

directions ==
    << "N", "NNE", "NE", "ENE", "E", "ESE", "SE", "SSE",
       "S", "SSW", "SW", "WSW", "W", "WNW", "NW", "NNW" >>

\* a conversion that rounds halves up
degrees_to_compass_half_up(degrees) ==
    directions[(round_half_up(degrees, 90) % 16) + 1]

\* WeatherService._degrees_to_compass, degrees in quarters: degrees / 22.5 is
\* quarters / 90; directions[index] is 0-based in Python
degrees_to_compass(degrees) ==
    LET index == round(degrees, 90) % 16 IN directions[index + 1]

\* a UV banding whose cutoffs belong to the lower band
get_uv_warning_inclusive(uv_index) ==
    IF uv_index <= Quarters(3) THEN "Low"
    ELSE IF uv_index <= Quarters(6) THEN "Moderate"
    ELSE IF uv_index <= Quarters(8) THEN "High"
    ELSE IF uv_index <= Quarters(11) THEN "Very High"
    ELSE "Extreme"

\* WeatherService._get_uv_warning, uv_index in quarters
get_uv_warning(uv_index) ==
    IF uv_index < Quarters(3) THEN "Low"
    ELSE IF uv_index < Quarters(6) THEN "Moderate"
    ELSE IF uv_index < Quarters(8) THEN "High"
    ELSE IF uv_index < Quarters(11) THEN "Very High"
    ELSE "Extreme"

\* f"{x:.1f}" of a float given in quarters, as the tokens of the decimal
format_1f(x) ==
    LET t == round(10 * x, 4) IN <<ToString(t \div 10), ".", ToString(t % 10)>>

\* format_current_weather_response, lines 279-283: the UV sentence
uv_index_sentence(uv) ==
    IF uv > Quarters(3)
    THEN <<" UV index is ">> \o format_1f(uv) \o <<" (", get_uv_warning(uv), ").">>
    ELSE <<>>

-----------------------------------------------------------------------------
(* WeatherService.get_coordinates: weather_service.py:30-60 *)

\* a geocoding lookup whose failure does not say which city it was for
get_coordinates_try_unnamed_city(city, r) ==
    IF r.err THEN Exc("RequestError", <<"All connection attempts failed">>)
    ELSE IF r.status # 200
    THEN Exc("ValueError", <<"Geocoding API returned status ", ToString(r.status)>>)
    ELSE CASE r.body = "not_json" ->
                Exc("JSONDecodeError", <<"Expecting value: line 1 column 1 (char 0)">>)
           [] r.body \in {"no_results_key", "empty_results"} ->
                Exc("ValueError", <<"No coordinates found for city: ">>)
           [] r.body = "result_not_object" ->
                Exc("TypeError", <<"'int' object is not subscriptable">>)
           [] r.body = "result_without_latitude" ->
                Exc("KeyError", <<"'latitude'">>)
           [] r.body = "result_without_longitude" ->
                Exc("KeyError", <<"'longitude'">>)
           [] OTHER -> NoExc

\* a geocoding lookup that does not look at the status of the response
get_coordinates_try_ignores_status(city, r) ==
    IF r.err THEN Exc("RequestError", <<"All connection attempts failed">>)
    ELSE CASE r.body = "not_json" ->
                Exc("JSONDecodeError", <<"Expecting value: line 1 column 1 (char 0)">>)
           [] r.body \in {"no_results_key", "empty_results"} ->
                Exc("ValueError", <<"No coordinates found for city: ", Str(city)>>)
           [] r.body = "result_not_object" ->
                Exc("TypeError", <<"'int' object is not subscriptable">>)
           [] r.body = "result_without_latitude" ->
                Exc("KeyError", <<"'latitude'">>)
           [] r.body = "result_without_longitude" ->
                Exc("KeyError", <<"'longitude'">>)
           [] OTHER -> NoExc

\* a geocoding lookup that subscripts geo_data["results"] without testing for the key
get_coordinates_try_results_subscripted(city, r) ==
    IF r.err THEN Exc("RequestError", <<"All connection attempts failed">>)
    ELSE IF r.status # 200
    THEN Exc("ValueError", <<"Geocoding API returned status ", ToString(r.status)>>)
    ELSE CASE r.body = "not_json" ->
                Exc("JSONDecodeError", <<"Expecting value: line 1 column 1 (char 0)">>)
           [] r.body = "no_results_key" ->
                Exc("KeyError", <<"'results'">>)
           [] r.body = "empty_results" ->
                Exc("ValueError", <<"No coordinates found for city: ", Str(city)>>)
           [] r.body = "result_not_object" ->
                Exc("TypeError", <<"'int' object is not subscriptable">>)
           [] r.body = "result_without_latitude" ->
                Exc("KeyError", <<"'latitude'">>)
           [] r.body = "result_without_longitude" ->
                Exc("KeyError", <<"'longitude'">>)
           [] OTHER -> NoExc

\* what the try block raises for response r, NoExc when it reaches the return
get_coordinates_try(city, r) ==
    IF r.err THEN Exc("RequestError", <<"All connection attempts failed">>)
    ELSE IF r.status # 200
    THEN Exc("ValueError", <<"Geocoding API returned status ", ToString(r.status)>>)
    ELSE CASE r.body = "not_json" ->
                Exc("JSONDecodeError", <<"Expecting value: line 1 column 1 (char 0)">>)
           [] r.body \in {"no_results_key", "empty_results"} ->
                Exc("ValueError", <<"No coordinates found for city: ", Str(city)>>)
           [] r.body = "result_not_object" ->
                Exc("TypeError", <<"'int' object is not subscriptable">>)
           [] r.body = "result_without_latitude" ->
                Exc("KeyError", <<"'latitude'">>)
           [] r.body = "result_without_longitude" ->
                Exc("KeyError", <<"'longitude'">>)
           [] OTHER -> NoExc

\* the except clauses of get_coordinates
get_coordinates_except(city, e) ==
    IF e.type = "RequestError"
    THEN Exc("ValueError",
             <<"Network error while fetching coordinates for ", Str(city), ": ">> \o e.msg)
    ELSE IF e.type \in {"KeyError", "IndexError"}
    THEN Exc("ValueError", <<"Invalid response format from geocoding API: ">> \o e.msg)
    ELSE e

\* the exception get_coordinates raises for response r, NoExc when it returns
get_coordinates(city, r) ==
    LET e == get_coordinates_try(city, r) IN
      IF e = NoExc THEN NoExc ELSE get_coordinates_except(city, e)

\* geo_data["results"] of the bodies that are JSON objects with that key
geo_results(body) ==
    CASE body = "empty_results"            -> <<>>
      [] body = "result_without_latitude"  -> << [longitude |-> "2.35"] >>
      [] body = "result_without_longitude" -> << [latitude |-> "48.85"] >>
      [] body = "ok"           -> << [latitude |-> "48.85", longitude |-> "2.35"] >>
      [] body = "ok_elsewhere" -> << [latitude |-> "35.68", longitude |-> "139.69"],
                                     [latitude |-> "48.85", longitude |-> "2.35"] >>

\* result["latitude"], result["longitude"] of the first result
Coordinates(r) ==
    IF r.body \in {"ok", "ok_elsewhere"}
    THEN [lat |-> geo_results(r.body)[1].latitude, lon |-> geo_results(r.body)[1].longitude]
    ELSE [lat |-> "48.85", lon |-> "2.35"]

\* await client.get(f"{BASE_GEO_URL}?name={city}") inside get_coordinates
start_get_coordinates(v, phase) ==
    Send(v, "geocoding", <<BASE_GEO_URL, "?name=", Str(v.arguments.d["city"])>>,
         "await_geo", phase)

-----------------------------------------------------------------------------
(* WeatherService.get_current_weather / get_weather_by_date_range *)

HourlyVariables ==
    "&hourly=temperature_2m,relative_humidity_2m,dew_point_2m,weather_code,wind_speed_10m,wind_direction_10m,wind_gusts_10m,precipitation,rain,snowfall,precipitation_probability,pressure_msl,cloud_cover,uv_index,apparent_temperature,visibility"

current_weather_url(c) ==
    <<BASE_WEATHER_URL, "?latitude=", c.lat, "&longitude=", c.lon, HourlyVariables,
      "&timezone=GMT&forecast_days=1">>

date_range_url(c, range) ==
    <<BASE_WEATHER_URL, "?latitude=", c.lat, "&longitude=", c.lon, HourlyVariables,
      "&timezone=GMT&start_date=", range.start_date, "&end_date=", range.end_date>>

\* the except clauses of get_current_weather and of get_weather_by_date_range
weather_except(city, e) ==
    IF e.type = "RequestError"
    THEN Exc("ValueError",
             <<"Network error while fetching weather for ", Str(city), ": ">> \o e.msg)
    ELSE IF e.type \in {"KeyError", "IndexError"}
    THEN Exc("ValueError", <<"Invalid response format from weather API: ">> \o e.msg)
    ELSE e

\* the forecast response r reaches utils.get_closest_utc_index, which reads the clock
reaches_closest_index(r) ==
    ~r.err /\ r.status = 200 /\ r.body \notin {"not_json", "no_hourly"}

\* what get_current_weather raises on forecast response r before its except clauses
get_current_weather_try(r) ==
    IF r.err THEN Exc("RequestError", <<"All connection attempts failed">>)
    ELSE IF r.status # 200
    THEN Exc("ValueError", <<"Weather API returned status ", ToString(r.status)>>)
    ELSE CASE r.body = "not_json" ->
                Exc("JSONDecodeError", <<"Expecting value: line 1 column 1 (char 0)">>)
           [] r.body = "no_hourly"    -> Exc("KeyError", <<"'hourly'">>)
           [] r.body = "empty_time"   -> Exc("ValueError", <<"min() arg is an empty sequence">>)
           [] r.body = "short_series" -> Exc("IndexError", <<"list index out of range">>)
           [] OTHER -> NoExc

\* what get_weather_by_date_range raises on forecast response r before its except clauses
get_weather_by_date_range_try(r) ==
    IF r.err THEN Exc("RequestError", <<"All connection attempts failed">>)
    ELSE IF r.status # 200
    THEN Exc("ValueError", <<"Weather API returned status ", ToString(r.status)>>)
    ELSE CASE r.body = "not_json" ->
                Exc("JSONDecodeError", <<"Expecting value: line 1 column 1 (char 0)">>)
           [] r.body = "no_hourly"    -> Exc("KeyError", <<"'hourly'">>)
           [] r.body = "short_series" -> Exc("IndexError", <<"list index out of range">>)
           [] OTHER -> NoExc

\* weather_data["hourly"]["uv_index"][current_index] of the bodies the model answers with
current_uv_index(r) == IF r.body = "null_values" THEN 0 ELSE Quarters(5)

\* format_current_weather_response: abs(feels_like - temp) fails on null values
format_current_weather_response_try(data) ==
    IF data.nulls
    THEN Exc("TypeError", <<"unsupported operand type(s) for -: 'NoneType' and 'NoneType'">>)
    ELSE NoExc

\* the sentence of format_current_weather_response: the fixed part, then the UV part
format_current_weather_response(city, data) ==
    <<"The weather in ", Str(city), " is ", "<current conditions>">>
    \o uv_index_sentence(data.uv)

\* a details document that carries a forecast key whether or not one was fetched
weather_details_json_always_forecast(city, c, data) ==
    <<"{\n  \"city\": ">> \o json_value(city)
    \o <<",\n  \"latitude\": ", c.lat, ",\n  \"longitude\": ", c.lon,
         ",\n  ", "<current conditions>">>
    \o <<",\n  \"forecast\": ", "<hourly records>">>
    \o <<"\n}">>

\* json.dumps(weather_data, indent=2) of the details handler
weather_details_json(city, c, data) ==
    <<"{\n  \"city\": ">> \o json_value(city)
    \o <<",\n  \"latitude\": ", c.lat, ",\n  \"longitude\": ", c.lon,
         ",\n  ", "<current conditions>">>
    \o (IF data.forecast THEN <<",\n  \"forecast\": ", "<hourly records>">> ELSE <<>>)
    \o <<"\n}">>

\* utils.format_get_weather_bytime(weather_data)
format_weather_range_response(city, c, range) ==
    <<"Please analyze the following JSON weather forecast information",
      "{\n  \"city\": ">> \o json_value(city)
    \o <<",\n  \"latitude\": ", c.lat, ",\n  \"longitude\": ", c.lon,
         ",\n  \"start_date\": ">> \o json_string(<<range.start_date>>)
    \o <<",\n  \"end_date\": ">> \o json_string(<<range.end_date>>)
    \o <<",\n  \"weather_data\": ", "<hourly records>", "\n}">>

\* a details handler whose forecast is on unless the caller turns it off
include_forecast_default_true(args) ==
    IF "include_forecast" \in DOMAIN args THEN args["include_forecast"] ELSE PyBool(TRUE)

\* args.get("include_forecast", False)
include_forecast(args) ==
    IF "include_forecast" \in DOMAIN args THEN args["include_forecast"] ELSE PyBool(FALSE)

-----------------------------------------------------------------------------
(* AirQualityService: air_quality_service.py:28-99 *)

\* args.get("variables", [...]) of the two air-quality handlers
variables_of(cls, args) ==
    IF "variables" \in DOMAIN args THEN args["variables"]
    ELSE IF cls = "GetAirQualityToolHandler"
    THEN PyList("['pm10', 'pm2_5', 'ozone', 'nitrogen_dioxide', 'carbon_monoxide']",
                <<"pm10", "pm2_5", "ozone", "nitrogen_dioxide", "carbon_monoxide">>)
    ELSE PyList("['pm10', 'pm2_5', 'ozone', 'nitrogen_dioxide', 'carbon_monoxide', 'sulphur_dioxide', 'ammonia', 'dust', 'aerosol_optical_depth']",
                <<"pm10", "pm2_5", "ozone", "nitrogen_dioxide", "carbon_monoxide",
                  "sulphur_dioxide", "ammonia", "dust", "aerosol_optical_depth">>)

\* get_air_quality: `if hourly_vars is None: hourly_vars = [...]`
default_hourly_vars(hourly_vars) ==
    IF hourly_vars.ty = "none"
    THEN PyList("['pm10', 'pm2_5', 'ozone', 'nitrogen_dioxide', 'carbon_monoxide']",
                <<"pm10", "pm2_5", "ozone", "nitrogen_dioxide", "carbon_monoxide">>)
    ELSE hourly_vars

air_quality_url(c, hourly_vars) ==
    <<BASE_AIR_QUALITY_URL, "?latitude=", c.lat, "&longitude=", c.lon, "&hourly=">>
    \o Join(hourly_vars.items, ",") \o <<"&timezone=GMT">>

\* what get_air_quality raises on response r, after its except clauses
get_air_quality(r) ==
    IF r.err
    THEN Exc("ValueError", <<"Network error while fetching air quality data: ",
                             "All connection attempts failed">>)
    ELSE IF r.status # 200
    THEN Exc("ValueError", <<"Air Quality API returned status ", ToString(r.status)>>)
    ELSE IF r.body = "not_json"
    THEN Exc("JSONDecodeError", <<"Expecting value: line 1 column 1 (char 0)">>)
    ELSE NoExc

\* what get_current_air_quality_index raises on the data of response r
get_current_air_quality_index(r) ==
    CASE r.body = "no_hourly"  -> Exc("KeyError", <<"'hourly'">>)
      [] r.body = "empty_time" -> Exc("ValueError", <<"min() arg is an empty sequence">>)
      [] OTHER -> NoExc

air_quality_text(cls, city, c) ==
    (IF cls = "GetAirQualityToolHandler"
     THEN <<"Please analyze the following JSON air quality information">> ELSE <<>>)
    \o <<"{\n  \"city\": ">> \o json_value(city)
    \o <<",\n  \"latitude\": ", c.lat, ",\n  \"longitude\": ", c.lon,
         ",\n  \"current_air_quality\": ", "<current values>", ",\n  \"full_data\": ",
         "<hourly series>", "\n}">>

-----------------------------------------------------------------------------
(* Time tools: tools_time.py, utils.get_zoneinfo *)

\* the zones the IANA database of the host knows, among those a caller sends
ValidZones == {"UTC", "America/New_York"}

\* the exception utils.get_zoneinfo raises, NoExc when it returns a zone
get_zoneinfo(timezone_name) ==
    IF timezone_name.ty = "str" /\ timezone_name.v \in ValidZones THEN NoExc
    ELSE Exc("McpError", <<"Invalid timezone: ", "'No time zone found with key ",
                          Str(timezone_name), "'">>)

\* datetime_str.lower()
Lower(s) == IF s = "NOW" THEN "now" ELSE s
\* datetime_str.endswith('Z')
EndsWithZ(s) == s = "2024-01-15T14:30:00Z"
\* datetime_str[:-1]
DropLast(s) == IF s = "2024-01-15T14:30:00Z" THEN "2024-01-15T14:30:00" ELSE s
\* datetime.fromisoformat(s) accepts s
IsIsoFormat(s) == s = "2024-01-15T14:30:00"

\* GetCurrentDateTimeToolHandler.run_tool after validation
get_current_datetime(v) ==
    LET timezone_name == v.arguments.d["timezone_name"]
        v1 == LogLine(v, "info", <<"Getting current time for timezone: ", Str(timezone_name)>>)
        v2 == [v1 EXCEPT !.tz = @ + 1]
        e  == get_zoneinfo(timezone_name)
    IN  IF e # NoExc THEN run_tool_except(v2, e)
        ELSE call_tool_return([v2 EXCEPT !.clock = @ + 1],
               << TextContent(<<"{\"timezone\": \"", Str(timezone_name),
                                "\", \"datetime\": \"", "<now>", "\"}">>) >>)

\* GetTimeZoneInfoToolHandler.run_tool after validation
get_timezone_info(v) ==
    LET timezone_name == v.arguments.d["timezone_name"]
        v1 == LogLine(v, "info", <<"Getting timezone info for: ", Str(timezone_name)>>)
        v2 == [v1 EXCEPT !.tz = @ + 1]
        e  == get_zoneinfo(timezone_name)
    IN  IF e # NoExc THEN run_tool_except(v2, e)
        ELSE call_tool_return([v2 EXCEPT !.clock = @ + 2],
               << TextContent(<<"{\"timezone_name\": \"", Str(timezone_name),
                                "\", ", "<local time, utc time, offset, dst>", "}">>) >>)

\* a conversion that looks up the target zone before the source zone
convert_time_target_zone_first(v) ==
    LET datetime_str == v.arguments.d["datetime_str"]
        from_timezone_name == v.arguments.d["from_timezone"]
        to_timezone_name == v.arguments.d["to_timezone"]
        v1 == LogLine(v, "info", <<"Converting time '", Str(datetime_str), "' from ",
                                   Str(from_timezone_name), " to ", Str(to_timezone_name)>>)
        v2 == [v1 EXCEPT !.tz = @ + 1]
        e2 == get_zoneinfo(to_timezone_name)
        v3 == [v2 EXCEPT !.tz = @ + 1]
        e3 == get_zoneinfo(from_timezone_name)
        ok == << TextContent(<<"{\"original_datetime\": \"", "<source time>",
                               "\", \"original_timezone\": \"", Str(from_timezone_name),
                               "\", \"converted_datetime\": \"", "<target time>",
                               "\", \"converted_timezone\": \"", Str(to_timezone_name),
                               "\", \"time_difference_hours\": ", "<hours>", "}">>) >>
    IN  IF e2 # NoExc THEN run_tool_except(v2, e2)
        ELSE IF e3 # NoExc THEN run_tool_except(v3, e3)
        ELSE IF datetime_str.ty # "str"
        THEN run_tool_except(v3, Exc("AttributeError",
                 <<"'NoneType' object has no attribute 'lower'">>))
        ELSE IF Lower(datetime_str.v) = "now"
        THEN call_tool_return([v3 EXCEPT !.clock = @ + 1], ok)
        ELSE LET s == IF EndsWithZ(datetime_str.v) THEN DropLast(datetime_str.v)
                      ELSE datetime_str.v IN
               IF ~IsIsoFormat(s)
               THEN run_tool_except(v3, Exc("ValueError",
                        <<"Invalid isoformat string: '", s, "'">>))
               ELSE call_tool_return(v3, ok)

\* ConvertTimeToolHandler.run_tool after validation
convert_time(v) ==
    LET datetime_str == v.arguments.d["datetime_str"]
        from_timezone_name == v.arguments.d["from_timezone"]
        to_timezone_name == v.arguments.d["to_timezone"]
        v1 == LogLine(v, "info", <<"Converting time '", Str(datetime_str), "' from ",
                                   Str(from_timezone_name), " to ", Str(to_timezone_name)>>)
        v2 == [v1 EXCEPT !.tz = @ + 1]
        e2 == get_zoneinfo(from_timezone_name)
        v3 == [v2 EXCEPT !.tz = @ + 1]
        e3 == get_zoneinfo(to_timezone_name)
        ok == << TextContent(<<"{\"original_datetime\": \"", "<source time>",
                               "\", \"original_timezone\": \"", Str(from_timezone_name),
                               "\", \"converted_datetime\": \"", "<target time>",
                               "\", \"converted_timezone\": \"", Str(to_timezone_name),
                               "\", \"time_difference_hours\": ", "<hours>", "}">>) >>
    IN  IF e2 # NoExc THEN run_tool_except(v2, e2)
        ELSE IF e3 # NoExc THEN run_tool_except(v3, e3)
        ELSE IF datetime_str.ty # "str"
        THEN run_tool_except(v3, Exc("AttributeError",
                 <<"'NoneType' object has no attribute 'lower'">>))
        ELSE IF Lower(datetime_str.v) = "now"
        THEN call_tool_return([v3 EXCEPT !.clock = @ + 1], ok)
        ELSE LET s == IF EndsWithZ(datetime_str.v) THEN DropLast(datetime_str.v)
                      ELSE datetime_str.v IN
               IF ~IsIsoFormat(s)
               THEN run_tool_except(v3, Exc("ValueError",
                        <<"Invalid isoformat string: '", s, "'">>))
               ELSE call_tool_return(v3, ok)

-----------------------------------------------------------------------------
(* run_tool of the eight handlers, up to the first await or to the return *)

run_tool(v) ==
    LET cls  == v.handler.cls
        args == v.arguments.d
        e    == validate_required_args(args, run_tool_required(cls))
    IN  IF e # NoExc THEN run_tool_except(v, e)
        ELSE CASE cls = "GetCurrentWeatherToolHandler" ->
                    start_get_coordinates(
                      LogLine(v, "info", <<"Getting current weather for: ", Str(args["city"])>>),
                      "current")
               [] cls = "GetWeatherByDateRangeToolHandler" ->
                    start_get_coordinates(
                      [ LogLine(v, "info", <<"Getting weather for ", Str(args["city"]), " from ",
                                             Str(args["start_date"]), " to ",
                                             Str(args["end_date"])>>)
                          EXCEPT !.range = [start_date |-> Str(args["start_date"]),
                                            end_date   |-> Str(args["end_date"])] ],
                      "range")
               [] cls = "GetWeatherDetailsToolHandler" ->
                    start_get_coordinates(
                      LogLine(v, "info", <<"Getting detailed weather for: ", Str(args["city"]),
                                           " (forecast: ", Str(include_forecast(args)), ")">>),
                      "current")
               [] cls = "GetAirQualityToolHandler" ->
                    start_get_coordinates(
                      LogLine(v, "info", <<"Getting air quality for: ", Str(args["city"]),
                                           " with variables: ", Str(variables_of(cls, args))>>),
                      "air")
               [] cls = "GetAirQualityDetailsToolHandler" ->
                    start_get_coordinates(
                      LogLine(v, "info", <<"Getting detailed air quality for: ",
                                           Str(args["city"])>>),
                      "air")
               [] cls = "GetCurrentDateTimeToolHandler" -> get_current_datetime(v)
               [] cls = "GetTimeZoneInfoToolHandler"    -> get_timezone_info(v)
               [] cls = "ConvertTimeToolHandler"        -> convert_time(v)

\* run_tool resumes with the geocoding response r
geocoding_response(v0, r) ==
    LET v    == Receive(v0, r)
        cls  == v.handler.cls
        args == v.arguments.d
        city == args["city"]
        e    == get_coordinates(city, r)
        c    == Coordinates(r)
        v1   == [v EXCEPT !.coords = c]
    IN  IF e # NoExc
        THEN run_tool_except(v, IF v.phase = "air" THEN e ELSE weather_except(city, e))
        ELSE CASE v.phase = "current" ->
                    Send(LogLine(v1, "info", <<"Fetching current weather from: ">>
                                             \o current_weather_url(c)),
                         "forecast", current_weather_url(c), "await_weather", "current")
               [] v.phase = "range" ->
                    Send(LogLine(v1, "info", <<"Fetching weather history from: ">>
                                             \o date_range_url(c, v.range)),
                         "forecast", date_range_url(c, v.range), "await_weather", "range")
               [] v.phase = "air" ->
                    LET hourly_vars == default_hourly_vars(variables_of(cls, args)) IN
                      IF hourly_vars.ty # "list"
                      THEN run_tool_except(v1, Exc("TypeError",
                               <<"can only join an iterable">>))
                      ELSE Send(LogLine(v1, "info", <<"Fetching air quality data from: ">>
                                                    \o air_quality_url(c, hourly_vars)),
                                "air-quality", air_quality_url(c, hourly_vars),
                                "await_air", "air")

\* run_tool resumes with the forecast response r
forecast_response(v0, r) ==
    LET v    == Receive(v0, r)
        cls  == v.handler.cls
        args == v.arguments.d
        city == args["city"]
    IN  IF v.phase = "current"
        THEN LET e    == get_current_weather_try(r)
                 v1   == IF reaches_closest_index(r) THEN [v EXCEPT !.clock = @ + 1] ELSE v
                 data == [kind |-> "current", nulls |-> r.body = "null_values",
                          forecast |-> FALSE, uv |-> current_uv_index(r)]
             IN  IF e # NoExc THEN run_tool_except(v1, weather_except(city, e))
                 ELSE IF cls = "GetCurrentWeatherToolHandler"
                 THEN IF format_current_weather_response_try(data) # NoExc
                      THEN run_tool_except(v1, format_current_weather_response_try(data))
                      ELSE call_tool_return(v1,
                             << TextContent(format_current_weather_response(city, data)) >>)
                 ELSE IF Truthy(include_forecast(args))
                 THEN start_get_coordinates(
                        [v1 EXCEPT !.clock = @ + 2, !.current = data,
                                   !.range = [start_date |-> "<today>",
                                              end_date   |-> "<tomorrow>"]],
                        "range")
                 ELSE call_tool_return(v1,
                        << TextContent(weather_details_json(city, v.coords, data)) >>)
        ELSE LET e == get_weather_by_date_range_try(r) IN
               IF e # NoExc THEN run_tool_except(v, weather_except(city, e))
               ELSE IF cls = "GetWeatherByDateRangeToolHandler"
               THEN call_tool_return(v,
                      << TextContent(format_weather_range_response(city, v.coords, v.range)) >>)
               ELSE call_tool_return(v,
                      << TextContent(weather_details_json(city, v.coords,
                                       [v.current EXCEPT !.forecast = TRUE])) >>)

\* run_tool resumes with the air-quality response r
air_quality_response(v0, r) ==
    LET v    == Receive(v0, r)
        cls  == v.handler.cls
        city == v.arguments.d["city"]
        e    == get_air_quality(r)
        e2   == get_current_air_quality_index(r)
    IN  IF e # NoExc THEN run_tool_except(v, e)
        ELSE IF r.body = "no_hourly" THEN run_tool_except(v, e2)
        ELSE IF e2 # NoExc THEN run_tool_except([v EXCEPT !.clock = @ + 1], e2)
        ELSE call_tool_return([v EXCEPT !.clock = @ + 1],
               << TextContent(air_quality_text(cls, city, v.coords)) >>)

-----------------------------------------------------------------------------
(* call_tool: server_origin.py:221-265 *)

\* a dispatcher that looks the handler up before it checks the arguments
call_tool_lookup_first(th, name, arguments) ==
    LET v == [Idle EXCEPT !.name = name, !.arguments = arguments]
        tool_handler == get_tool_handler(th, name)
    IN  IF tool_handler = NoHandler
        THEN call_tool_except(v, Exc("ValueError", <<"Unknown tool: ", name>>))
        ELSE IF arguments.kind # "dict"
        THEN call_tool_except(v, Exc("RuntimeError", <<"Arguments must be a dictionary">>))
        ELSE run_tool(
               [v EXCEPT !.handler = tool_handler,
                         !.log = Append(@, [level |-> "info",
                                            msg   |-> <<"Executing tool: ", name,
                                                        " with arguments: ">>,
                                            keys  |-> DOMAIN arguments.d])])

\* call_tool up to the first await of run_tool or to its return
call_tool(th, name, arguments) ==
    LET v == [Idle EXCEPT !.name = name, !.arguments = arguments] IN
      IF arguments.kind # "dict"
      THEN call_tool_except(v, Exc("RuntimeError", <<"Arguments must be a dictionary">>))
      ELSE LET tool_handler == get_tool_handler(th, name) IN
             IF tool_handler = NoHandler
             THEN call_tool_except(v, Exc("ValueError", <<"Unknown tool: ", name>>))
             ELSE run_tool(
                    [v EXCEPT !.handler = tool_handler,
                              !.log = Append(@, [level |-> "info",
                                                 msg   |-> <<"Executing tool: ", name,
                                                             " with arguments: ">>,
                                                 keys  |-> DOMAIN arguments.d])])

\* no validate_required_args call has been made on its own
NoVal == [st |-> "none", args |-> EmptyMap, required_fields |-> <<>>, cls |-> "",
          exc |-> NoExc, text |-> <<>>]

\* no helper function has been called on its own
NoCall == [op |-> "none", st |-> "none", times |-> <<>>, now |-> 0, x |-> 0,
           exc |-> NoExc, index |-> 0, label |-> "", text |-> <<>>]

-----------------------------------------------------------------------------
(* Results of the registry operations *)

NoRet == [op |-> "none", name |-> "", tools |-> <<>>, handler |-> NoHandler]

\* how many entries of the history came from direct add_tool_handler calls
DirectAdds == Cardinality({i \in 1..Len(calls) : calls[i].via = "add_tool_handler"})
\* how many register_all_tools calls the history holds
RegisterAllCalls ==
    Cardinality({i \in 1..Len(calls) : calls[i].via = "register_all_tools"})
        \div Len(ToolHandlerClasses)

-----------------------------------------------------------------------------
(* Actions of the registry, called by a program that imports the module *)

\* add_tool_handler(cls()) for any of the handler classes
AddToolHandler ==
    /\ pc = "boot"
    /\ DirectAdds < MaxAdds
    /\ \E i \in 1..Len(ToolHandlerClasses) :
         LET h == NewHandler(ToolHandlerClasses[i], Len(calls) + 1) IN
           /\ tool_handlers' = add_tool_handler(tool_handlers, h)
           /\ calls' = Append(calls, [h |-> h, via |-> "add_tool_handler"])
    /\ ret' = NoRet
    /\ UNCHANGED <<pc, inv, val, fn>>

\* register_all_tools()
RegisterAllTools ==
    /\ pc = "boot"
    /\ RegisterAllCalls < MaxRegisterAll
    /\ tool_handlers' = register_all_tools(tool_handlers, Len(calls))
    /\ calls' = calls \o [i \in 1..Len(ToolHandlerClasses) |->
                            [h |-> AllToolsHandlers(Len(calls))[i], via |-> "register_all_tools"]]
    /\ ret' = NoRet
    /\ UNCHANGED <<pc, inv, val, fn>>

\* every name a caller may ask for: the registered ones and two that never are
ToolNames == {tool_name(ToolHandlerClasses[i]) : i \in 1..Len(ToolHandlerClasses)}
AskedNames == ToolNames \cup {"no_such_tool", ""}

\* get_tool_handler(name)
GetToolHandler ==
    /\ \E name \in AskedNames :
         ret' = [NoRet EXCEPT !.op = "get_tool_handler", !.name = name,
                              !.handler = get_tool_handler(tool_handlers, name)]
    /\ UNCHANGED <<tool_handlers, calls, pc, inv, val, fn>>

\* await list_tools()
ListTools ==
    /\ ret' = [NoRet EXCEPT !.op = "list_tools", !.tools = list_tools(tool_handlers)]
    /\ UNCHANGED <<tool_handlers, calls, pc, inv, val, fn>>

InitReg ==
    /\ tool_handlers = <<>>
    /\ calls = <<>>
    /\ pc = "boot"
    /\ ret = NoRet
    /\ inv = Idle
    /\ val = NoVal
    /\ fn = NoCall

NextReg == AddToolHandler \/ RegisterAllTools \/ GetToolHandler \/ ListTools

\* the registry functions called in any order by an importing program
SpecReg == InitReg /\ [][NextReg]_vars

-----------------------------------------------------------------------------
(* History views used to state the registry claims *)

RegisteredNames == {calls[i].h.name : i \in 1..Len(calls)}

\* the handler of the most recent add_tool_handler call under name, None if there is none
LastRegistered(name) ==
    IF name \in RegisteredNames
    THEN calls[CHOOSE i \in 1..Len(calls) :
                 /\ calls[i].h.name = name
                 /\ \A j \in (i + 1)..Len(calls) : calls[j].h.name # name].h
    ELSE NoHandler

\* position in the history of the call that registered the handler with identity id
RegisteredAt(id) == CHOOSE i \in 1..Len(calls) : calls[i].h.id = id

\* the names in the order of their first registration
FirstRegistrationOrder ==
    LET names == [i \in 1..Len(calls) |-> calls[i].h.name] IN
      SelectSeqIdx(names, {i \in 1..Len(names) : \A j \in 1..(i - 1) : names[j] # names[i]}, 1)

C5_ListedInHandlerRegistrationOrder ==
    ret.op = "list_tools" =>
      /\ Len(ret.tools) = Cardinality(RegisteredNames)
      /\ \A i \in 1..Len(ret.tools) :
           ret.tools[i] = get_tool_description(LastRegistered(ret.tools[i].name))
      /\ \A i, j \in 1..Len(ret.tools) :
           i < j => RegisteredAt(ret.tools[i].handler) < RegisteredAt(ret.tools[j].handler)

\* C5 amended: list_tools returns one descriptor per registered name, each of
\* the latest handler of its name, in the order in which the names were first
\* registered (a name registered again keeps its place in the list).
C5_ListedInFirstRegistrationOrder ==
    ret.op = "list_tools" =>
      /\ [i \in 1..Len(ret.tools) |-> ret.tools[i].name] = FirstRegistrationOrder
      /\ \A i \in 1..Len(ret.tools) :
           ret.tools[i] = get_tool_description(LastRegistered(ret.tools[i].name))

\* the tools were listed after a name was registered again while a name first
\* registered later than it was already in the registry
C5_Witness ==
    /\ ret.op = "list_tools"
    /\ Len(ret.tools) >= 2
    /\ \E i, j \in 1..Len(ret.tools) :
         i < j /\ RegisteredAt(ret.tools[i].handler) > RegisteredAt(ret.tools[j].handler)

-----------------------------------------------------------------------------
(* The server: main() registers the tools once, then serves list_tools and  *)
(* call_tool requests; a call_tool coroutine is suspended at each request  *)
(* it sends upstream and resumes with the response                          *)

\* main(): register_all_tools(), then run_server
Main ==
    /\ pc = "boot"
    /\ tool_handlers' = register_all_tools(tool_handlers, Len(calls))
    /\ calls' = calls \o [i \in 1..Len(ToolHandlerClasses) |->
                            [h |-> AllToolsHandlers(Len(calls))[i], via |-> "register_all_tools"]]
    /\ pc' = "serving"
    /\ UNCHANGED <<ret, inv, val, fn>>

\* a list_tools that registers the tools again before it lists them
ServeListTools_registering ==
    /\ pc = "serving"
    /\ Len(calls) < 3 * Len(ToolHandlerClasses)
    /\ tool_handlers' = register_all_tools(tool_handlers, Len(calls))
    /\ calls' = calls \o [i \in 1..Len(ToolHandlerClasses) |->
                            [h |-> AllToolsHandlers(Len(calls))[i], via |-> "register_all_tools"]]
    /\ ret' = [NoRet EXCEPT !.op = "list_tools", !.tools = list_tools(tool_handlers')]
    /\ UNCHANGED <<pc, inv, val, fn>>

\* the transport calls list_tools
ServeListTools ==
    /\ pc = "serving"
    /\ ListTools

\* the transport calls call_tool(name, arguments)
CallTool ==
    /\ pc = "serving"
    /\ inv.st = "idle"
    /\ \E name \in AskedNames, arguments \in ArgumentValues :
         inv' = call_tool(tool_handlers, name, arguments)
    /\ UNCHANGED <<tool_handlers, calls, pc, ret, val, fn>>

\* the geocoding API answers, or the request fails
GeocodingResponse ==
    /\ inv.st = "await_geo"
    /\ \E r \in Responses(GeoBodies) : inv' = geocoding_response(inv, r)
    /\ UNCHANGED <<tool_handlers, calls, pc, ret, val, fn>>

\* the forecast API answers, or the request fails
ForecastResponse ==
    /\ inv.st = "await_weather"
    /\ \E r \in Responses(WeatherBodies) : inv' = forecast_response(inv, r)
    /\ UNCHANGED <<tool_handlers, calls, pc, ret, val, fn>>

\* the air-quality API answers, or the request fails
AirQualityResponse ==
    /\ inv.st = "await_air"
    /\ \E r \in Responses(AirBodies) : inv' = air_quality_response(inv, r)
    /\ UNCHANGED <<tool_handlers, calls, pc, ret, val, fn>>

\* the transport sends the outcome of call_tool to the client; the frame is gone
Deliver ==
    /\ inv.st = "done"
    /\ inv' = Idle
    /\ UNCHANGED <<tool_handlers, calls, pc, ret, val, fn>>

Init == InitReg

Next ==
    \/ Main
    \/ ServeListTools
    \/ CallTool
    \/ GeocodingResponse
    \/ ForecastResponse
    \/ AirQualityResponse
    \/ Deliver

Spec == Init /\ [][Next]_vars

-----------------------------------------------------------------------------
(* validate_required_args called on its own, by a handler of any class *)

ValidateKeys == {"city", "start_date", "end_date", "datetime_str"}

RECURSIVE SeqsUpTo(_, _)
\* the sequences over S of length at most n
SeqsUpTo(S, n) ==
    IF n = 0 THEN {<<>>}
    ELSE SeqsUpTo(S, n - 1)
         \cup {Append(q, x) : q \in {p \in SeqsUpTo(S, n - 1) : Len(p) = n - 1}, x \in S}

InitValidate ==
    /\ tool_handlers = <<>>
    /\ calls = <<>>
    /\ pc = "boot"
    /\ ret = NoRet
    /\ inv = Idle
    /\ fn = NoCall
    /\ val \in { [NoVal EXCEPT !.st = "ready", !.args = a, !.required_fields = rq] :
                   a \in UNION {MapsOver(S) : S \in SUBSET ValidateKeys},
                   rq \in SeqsUpTo(ValidateKeys, MaxRequired) }

\* run_tool of a handler of class cls: validate_required_args(args, required_fields)
\* inside the try block, and the except clauses when it raises
ValidateRequiredArgs ==
    /\ val.st = "ready"
    /\ \E i \in 1..Len(ToolHandlerClasses) :
         LET h == NewHandler(ToolHandlerClasses[i], 1)
             e == validate_required_args(val.args, val.required_fields)
             v == [Idle EXCEPT !.name = h.name, !.handler = h,
                               !.arguments = [kind |-> "dict", d |-> val.args]]
         IN  val' = [val EXCEPT !.st = "done", !.cls = h.cls, !.exc = e,
                                !.text = IF e = NoExc THEN <<>>
                                         ELSE run_tool_except(v, e).result[1].text]
    /\ UNCHANGED <<tool_handlers, calls, pc, ret, inv, fn>>

NextValidate == ValidateRequiredArgs

SpecValidate == InitValidate /\ [][NextValidate]_vars

-----------------------------------------------------------------------------
(* utils.get_closest_utc_index: utils.py:179-195                            *)
(* An instant is a number of minutes since 2024-01-01T00:00 UTC. An ISO     *)
(* 8601 string is the record of its fields: the minutes its date and time   *)
(* read, and its zone suffix ("" when it has none).                         *)

Abs(n) == IF n < 0 THEN -n ELSE n

IsoString(minutes, zone) == [minutes |-> minutes, zone |-> zone]

\* parser.isoparse(t): the naive reading and the tzinfo, "None" without a suffix
isoparse(t) ==
    [ naive  |-> t.minutes,
      tzinfo |-> CASE t.zone = ""       -> "None"
                   [] t.zone = "Z"      -> "UTC"
                   [] OTHER             -> t.zone ]

\* tzinfo.utcoffset(), in minutes
utcoffset(tzinfo) ==
    CASE tzinfo = "UTC"    -> 0
      [] tzinfo = "+01:00" -> 60
      [] tzinfo = "-01:00" -> -60

\* dt.replace(tzinfo=timezone.utc): the same reading, now in UTC
replace_tzinfo_utc(dt) == dt.naive

\* dt.astimezone(timezone.utc): the same instant, read in UTC
astimezone_utc(dt) == dt.naive - utcoffset(dt.tzinfo)

\* the comprehension of lines 189-193
parsed_times(hourly_times) ==
    [ i \in 1..Len(hourly_times) |->
        IF isoparse(hourly_times[i]).tzinfo = "None"
        THEN replace_tzinfo_utc(isoparse(hourly_times[i]))
        ELSE astimezone_utc(isoparse(hourly_times[i])) ]

RECURSIVE min_by_key_last(_, _, _)
\* a scan that keeps the last of the smallest keys
min_by_key_last(keys, i, best) ==
    IF i > Len(keys) THEN best
    ELSE min_by_key_last(keys, i + 1, IF keys[i] <= keys[best] THEN i ELSE best)

RECURSIVE min_by_key(_, _, _)
\* min(range(n), key=...): the scan keeps the first of the smallest keys
min_by_key(keys, i, best) ==
    IF i > Len(keys) THEN best
    ELSE min_by_key(keys, i + 1, IF keys[i] < keys[best] THEN i ELSE best)

\* a selection that breaks ties toward the later timestamp
get_closest_utc_index_last_tie(hourly_times, current_time) ==
    LET times == parsed_times(hourly_times)
        keys  == [i \in 1..Len(times) |-> Abs(times[i] - current_time)]
    IN  IF keys = <<>>
        THEN [exc |-> Exc("ValueError", <<"min() arg is an empty sequence">>), index |-> 0]
        ELSE [exc |-> NoExc, index |-> min_by_key_last(keys, 2, 1) - 1]

\* a selection of the hour that has begun: the latest timestamp not after now
get_closest_utc_index_hour_begun(hourly_times, current_time) ==
    LET times == parsed_times(hourly_times)
        keys  == [i \in 1..Len(times) |->
                    IF times[i] <= current_time THEN current_time - times[i]
                    ELSE 100000 + times[i] - current_time]
    IN  IF keys = <<>>
        THEN [exc |-> Exc("ValueError", <<"min() arg is an empty sequence">>), index |-> 0]
        ELSE [exc |-> NoExc, index |-> min_by_key(keys, 2, 1) - 1]

\* get_closest_utc_index(hourly_times) when datetime.now(timezone.utc) is current_time;
\* the index is 0-based, as Python's
get_closest_utc_index(hourly_times, current_time) ==
    LET times == parsed_times(hourly_times)
        keys  == [i \in 1..Len(times) |-> Abs(times[i] - current_time)]
    IN  IF keys = <<>>
        THEN [exc |-> Exc("ValueError", <<"min() arg is an empty sequence">>), index |-> 0]
        ELSE [exc |-> NoExc, index |-> min_by_key(keys, 2, 1) - 1]

\* the timestamps an hourly series is drawn from: naive, Z-suffixed and offset ones
HourlyTimes ==
    {IsoString(m, z) : m \in {0, 60, 120}, z \in {"", "Z"}}
    \cup {IsoString(120, "+01:00"), IsoString(60, "-01:00")}

\* the instants at which the clock is read
Nows == {30, 90, 100, 150}

-----------------------------------------------------------------------------
(* The helper functions called on their own, each on every input of a grid *)

Pm25Values == 0..Tenths(260)
Pm10Values == 0..Tenths(430)
DegreeValues == 0..Quarters(360)
UvValues == 0..Quarters(13)

HelperCall(op, x) == [NoCall EXCEPT !.op = op, !.st = "ready", !.x = x]

InitHelpers ==
    /\ tool_handlers = <<>>
    /\ calls = <<>>
    /\ pc = "boot"
    /\ ret = NoRet
    /\ inv = Idle
    /\ val = NoVal
    /\ fn \in { [HelperCall("get_closest_utc_index", 0) EXCEPT !.times = ts, !.now = n] :
                  ts \in SeqsUpTo(HourlyTimes, MaxTimes), n \in Nows }
              \cup {HelperCall("get_pm25_level", x) : x \in Pm25Values}
              \cup {HelperCall("get_pm10_level", x) : x \in Pm10Values}
              \cup {HelperCall("degrees_to_compass", x) : x \in DegreeValues}
              \cup {HelperCall("get_uv_warning", x) : x \in UvValues}
              \cup {HelperCall("format_current_weather_response", x) : x \in UvValues}

\* utils.get_closest_utc_index(fn.times) with the clock at fn.now
GetClosestUtcIndex ==
    /\ fn.st = "ready" /\ fn.op = "get_closest_utc_index"
    /\ LET r == get_closest_utc_index(fn.times, fn.now) IN
         fn' = [fn EXCEPT !.st = "done", !.exc = r.exc, !.index = r.index]
    /\ UNCHANGED <<tool_handlers, calls, pc, ret, inv, val>>

GetPm25Level ==
    /\ fn.st = "ready" /\ fn.op = "get_pm25_level"
    /\ fn' = [fn EXCEPT !.st = "done", !.label = get_pm25_level(fn.x)]
    /\ UNCHANGED <<tool_handlers, calls, pc, ret, inv, val>>

GetPm10Level ==
    /\ fn.st = "ready" /\ fn.op = "get_pm10_level"
    /\ fn' = [fn EXCEPT !.st = "done", !.label = get_pm10_level(fn.x)]
    /\ UNCHANGED <<tool_handlers, calls, pc, ret, inv, val>>

DegreesToCompass ==
    /\ fn.st = "ready" /\ fn.op = "degrees_to_compass"
    /\ fn' = [fn EXCEPT !.st = "done", !.label = degrees_to_compass(fn.x)]
    /\ UNCHANGED <<tool_handlers, calls, pc, ret, inv, val>>

GetUvWarning ==
    /\ fn.st = "ready" /\ fn.op = "get_uv_warning"
    /\ fn' = [fn EXCEPT !.st = "done", !.label = get_uv_warning(fn.x)]
    /\ UNCHANGED <<tool_handlers, calls, pc, ret, inv, val>>

\* format_current_weather_response on a record for Paris whose uv_index is fn.x
FormatCurrentWeatherResponse ==
    /\ fn.st = "ready" /\ fn.op = "format_current_weather_response"
    /\ fn' = [fn EXCEPT !.st = "done",
                        !.text = format_current_weather_response(
                                   PyStr("Paris"),
                                   [kind |-> "current", nulls |-> FALSE, forecast |-> FALSE,
                                    uv |-> fn.x])]
    /\ UNCHANGED <<tool_handlers, calls, pc, ret, inv, val>>

NextHelpers ==
    \/ GetClosestUtcIndex
    \/ GetPm25Level
    \/ GetPm10Level
    \/ DegreesToCompass
    \/ GetUvWarning
    \/ FormatCurrentWeatherResponse

SpecHelpers == InitHelpers /\ [][NextHelpers]_vars

-----------------------------------------------------------------------------
(* Claims about the dispatcher *)

Registered(name) == DictHas(tool_handlers, name)

C2_DispatchErrorsAreRaised ==
    inv.st = "done" =>
      IF inv.arguments.kind # "dict" \/ ~Registered(inv.name)
      THEN inv.outcome = "raised"
      ELSE inv.outcome = "returned"

\* C3 as stated: for a name that is not registered the failure reported is the
\* unknown-tool failure, whether or not the arguments are a mapping; the
\* arguments failure is reported for registered names only.
C3_UnknownToolReportedFirst ==
    (inv.st = "done" /\ pc = "serving") =>
      /\ ~Registered(inv.name) => inv.exc = Exc("ValueError", <<"Unknown tool: ", inv.name>>)
      /\ inv.exc = Exc("RuntimeError", <<"Arguments must be a dictionary">>)
           => Registered(inv.name)

\* C3 amended: call_tool checks the shape of the arguments before it looks the
\* handler up: arguments that are not a mapping give the arguments failure
\* whether or not the name is registered, and the unknown-tool failure is
\* reported exactly for an unregistered name called with a mapping.
C3_ArgumentsCheckedFirst ==
    (inv.st = "done" /\ pc = "serving") =>
      /\ inv.arguments.kind # "dict"
           => /\ inv.exc = Exc("RuntimeError", <<"Arguments must be a dictionary">>)
              /\ inv.caught = "call_tool"
      /\ inv.exc = Exc("ValueError", <<"Unknown tool: ", inv.name>>)
           <=> (inv.arguments.kind = "dict" /\ ~Registered(inv.name))

\* an unregistered name was called with arguments that are not a mapping
C3_Witness ==
    /\ inv.st = "done"
    /\ ~Registered(inv.name)
    /\ inv.arguments.kind # "dict"
    /\ inv.result = << TextContent(<<"Error executing tool '", inv.name, "': ",
                                     "Arguments must be a dictionary">>) >>

\* C6: once main has registered the tools, no step of the server (list_tools,
\* call_tool on any name, a response, a failure) changes the registry.
C6_RegistryReadOnlyWhileServing ==
    [][pc = "serving" => tool_handlers' = tool_handlers]_vars

\* the tools were listed and a call_tool on an unknown name has failed
C6_Witness ==
    /\ pc = "serving"
    /\ ret.op = "list_tools"
    /\ inv.st = "done"
    /\ ~Registered(inv.name)

\* C7: after register_all_tools the registry holds exactly eight entries, with
\* pairwise distinct, non-empty names, and each entry's key, its handler's
\* name attribute and the name of its descriptor are the same string.
C7_EightDistinctNamedTools ==
    pc = "serving" =>
      /\ Len(tool_handlers) = 8
      /\ Cardinality({calls[i].h.name : i \in 1..Len(calls)}) = 8
      /\ \A i, j \in 1..Len(tool_handlers) :
           tool_handlers[i].key = tool_handlers[j].key => i = j
      /\ \A i \in 1..Len(tool_handlers) :
           /\ tool_handlers[i].key # ""
           /\ tool_handlers[i].key = tool_handlers[i].val.name
           /\ tool_handlers[i].key = get_tool_description(tool_handlers[i].val).name
           /\ tool_handlers[i].val.cls = ToolHandlerClasses[i]

\* the server is up and a client has listed the eight tools
C7_Witness ==
    /\ pc = "serving"
    /\ ret.op = "list_tools"
    /\ Cardinality({ret.tools[i].name : i \in 1..Len(ret.tools)}) = 8

\* C8: each run_tool validates exactly the required fields of its schema, and
\* it does so first: an invocation whose arguments lack a required field sends
\* no request, looks up no timezone and reads no clock.
C8_RequiredValidatedFirst ==
    /\ \A i \in 1..Len(ToolHandlerClasses) :
         run_tool_required(ToolHandlerClasses[i]) = schema_required(ToolHandlerClasses[i])
    /\ ( /\ inv.handler # NoHandler
         /\ \E f \in Range(get_tool_description(inv.handler).inputSchema.required) :
              f \notin DOMAIN inv.arguments.d )
       => /\ inv.st = "done"
          /\ inv.http = <<>>
          /\ inv.tz = 0
          /\ inv.clock = 0

\* the range tool was called with a city and an end date but no start date
C8_Witness ==
    /\ inv.st = "done"
    /\ inv.handler.cls = "GetWeatherByDateRangeToolHandler"
    /\ DOMAIN inv.arguments.d = {"city", "end_date"}
    /\ inv.http = <<>>

\* C9: the schema of every registered tool requires only fields it documents.
C9_RequiredSubsetOfProperties ==
    /\ \A i \in 1..Len(tool_handlers) :
         LET schema == get_tool_description(tool_handlers[i].val).inputSchema IN
           Range(schema.required) \subseteq schema.properties
    /\ \A i \in 1..Len(ret.tools) :
         Range(ret.tools[i].inputSchema.required) \subseteq ret.tools[i].inputSchema.properties

\* a client has listed the tools, one of which documents a field it does not require
C9_Witness ==
    /\ ret.op = "list_tools"
    /\ Len(ret.tools) = 8
    /\ \E i \in 1..Len(ret.tools) :
         Range(ret.tools[i].inputSchema.required) # ret.tools[i].inputSchema.properties

\* the required fields absent from the mapping, in the order of the required list
AbsentRequired(args, required_fields) ==
    SelectSeqIdx(required_fields, {i \in 1..Len(required_fields) : required_fields[i] \notin DOMAIN args}, 1)

\* C10: validate_required_args fails iff a required field is absent from the
\* mapping; the failure names every absent required field, in the order of
\* the required list, and no other; the text the handler returns ends with
\* that message.
C10_EveryMissingFieldNamed ==
    val.st = "done" =>
      LET absent == AbsentRequired(val.args, val.required_fields)
          named  == SelectSeq(Tail(val.exc.msg), LAMBDA t : t # ", ")
      IN  /\ val.exc # NoExc <=> absent # <<>>
          /\ val.exc # NoExc =>
               /\ val.exc.type = "RuntimeError"
               /\ Head(val.exc.msg) = "Missing required arguments: "
               /\ named = absent
               /\ \A f \in Range(named) : f \notin DOMAIN val.args
               /\ Contains(val.text, val.exc.msg)
          /\ val.exc = NoExc => val.text = <<>>

\* two required fields were absent and one was present
C10_Witness ==
    /\ val.st = "done"
    /\ Len(AbsentRequired(val.args, val.required_fields)) >= 2
    /\ \E f \in Range(val.required_fields) : f \in DOMAIN val.args
    /\ Len(val.exc.msg) >= 4

-----------------------------------------------------------------------------
(* Claims about the outbound requests of an invocation *)

TimeHandlers ==
    {"GetCurrentDateTimeToolHandler", "GetTimeZoneInfoToolHandler", "ConvertTimeToolHandler"}

\* the requests go out one at a time, a geocoding request at every odd position
\* and a forecast or air-quality request at every even one
GeocodeThenData ==
    /\ \A i \in 1..Len(inv.http) :
         IF i % 2 = 1 THEN inv.http[i].api = "geocoding"
         ELSE inv.http[i].api \in {"forecast", "air-quality"}
    /\ Len(inv.answers) = (IF inv.st \in {"await_geo", "await_weather", "await_air"}
                           THEN Len(inv.http) - 1 ELSE Len(inv.http))

\* C11 as stated: every invocation, get_weather_details with include_forecast
\* true included, sends at most two requests, one after the other: a geocoding
\* request, then a forecast or air-quality request.
C11_AtMostTwoHttpCalls ==
    /\ Len(inv.http) <= 2
    /\ GeocodeThenData

\* C11 amended: the requests of an invocation go out one after the other, each
\* after the answer to the one before, a geocoding request followed by a
\* forecast or air-quality request; the time tools send none and every other
\* invocation sends at most two, except get_weather_details called with a true
\* include_forecast, which sends up to four (geocoding, forecast, then geocoding
\* and forecast again for the date range).
C11_TwoCallsPerServiceCall ==
    /\ GeocodeThenData
    /\ Len(inv.http) <= 4
    /\ inv.handler.cls \in TimeHandlers \cup {"None"} => inv.http = <<>>
    /\ Len(inv.http) > 2 =>
         /\ inv.handler.cls = "GetWeatherDetailsToolHandler"
         /\ "include_forecast" \in DOMAIN inv.arguments.d
         /\ Truthy(inv.arguments.d["include_forecast"])
         /\ inv.http[3].url = inv.http[1].url
         /\ Len(inv.http) = 4 => Contains(inv.http[4].url, <<"&timezone=GMT&start_date=">>)

\* get_weather_details with include_forecast true has returned after four requests
C11_Witness ==
    /\ inv.st = "done"
    /\ inv.exc = NoExc
    /\ inv.handler.cls = "GetWeatherDetailsToolHandler"
    /\ Len(inv.http) = 4
    /\ Len(inv.answers) = 4

\* the geocoding API resolved the city: a 200 answer whose first result has coordinates
GeocodingSucceeded(r) == ~r.err /\ r.status = 200 /\ r.body \in {"ok", "ok_elsewhere"}

\* the k-th request of the invocation failed
RequestFailed(k) ==
    IF inv.http[k].api = "geocoding" THEN ~GeocodingSucceeded(inv.answers[k])
    ELSE inv.answers[k].err \/ inv.answers[k].status # 200

\* C12: a forecast or air-quality request is sent only after the geocoding
\* request before it was answered with coordinates, and its URL carries those
\* coordinates; after a geocoding request that failed (network error, status
\* other than 200, no result, malformed result) no further request is sent; and
\* after any request that failed the invocation is over with no request sent
\* again.
C12_GeocodingFirstSingleAttempt ==
    /\ \A i \in 1..Len(inv.http) :
         inv.http[i].api # "geocoding" =>
           /\ i > 1
           /\ inv.http[i - 1].api = "geocoding"
           /\ GeocodingSucceeded(inv.answers[i - 1])
           /\ Contains(inv.http[i].url,
                       <<"?latitude=", Coordinates(inv.answers[i - 1]).lat,
                         "&longitude=", Coordinates(inv.answers[i - 1]).lon>>)
    /\ \A k \in 1..Len(inv.answers) :
         RequestFailed(k) =>
           /\ Len(inv.http) = k
           /\ inv.st = "done"
           /\ inv.exc # NoExc
    /\ \A i, j \in 1..Len(inv.http) :
         (i < j /\ inv.http[i] = inv.http[j]) => ~RequestFailed(i)

\* the details tool used the coordinates of the first geocoding answer for its
\* forecast request, and its second geocoding request failed with status 500
C12_Witness ==
    /\ inv.st = "done"
    /\ Len(inv.http) = 3
    /\ inv.answers[1].body = "ok_elsewhere"
    /\ Contains(inv.http[2].url, <<"?latitude=", "35.68", "&longitude=", "139.69">>)
    /\ inv.answers[3].status = 500

-----------------------------------------------------------------------------
(* Claims about the helper functions *)

\* the minutes a zone suffix is ahead of UTC; a string without a suffix reads as UTC
ZoneAhead(zone) ==
    CASE zone \in {"", "Z"} -> 0
      [] zone = "+01:00"    -> 60
      [] zone = "-01:00"    -> -60

\* the distance of the j-th timestamp of the call from the instant of the call
Distance(j) == Abs((fn.times[j].minutes - ZoneAhead(fn.times[j].zone)) - fn.now)

\* C13: on a non-empty series get_closest_utc_index returns without failing an
\* index in range (0-based) whose timestamp, read in UTC (as it stands when it
\* has no zone, converted when it has one), is at minimal distance from the
\* current instant, and every index before it is strictly farther.
C13_ClosestIndexMinimalFirst ==
    (fn.op = "get_closest_utc_index" /\ fn.st = "done" /\ fn.times # <<>>) =>
      /\ fn.exc = NoExc
      /\ fn.index \in 0..(Len(fn.times) - 1)
      /\ \A j \in 1..Len(fn.times) : Distance(fn.index + 1) <= Distance(j)
      /\ \A j \in 1..fn.index : Distance(j) > Distance(fn.index + 1)

\* an offset timestamp and a later naive one were equally close, and closer
\* than the first: the offset one was selected
C13_Witness ==
    /\ fn.op = "get_closest_utc_index" /\ fn.st = "done"
    /\ Len(fn.times) = 3
    /\ fn.times[2].zone = "+01:00"
    /\ fn.times[3].zone = ""
    /\ Distance(2) = Distance(3)
    /\ Distance(1) > Distance(2)
    /\ fn.index = 1

\* the series 00:00Z, 01:00Z, 02:00Z of 2024-01-01
ThreeHours == <<IsoString(0, "Z"), IsoString(60, "Z"), IsoString(120, "Z")>>

\* C14 as stated: on 00:00Z, 01:00Z, 02:00Z with the clock at 01:40Z the
\* selected index is 1.
C14_SelectsIndexOne ==
    (fn.op = "get_closest_utc_index" /\ fn.st = "done"
       /\ fn.times = ThreeHours /\ fn.now = 100) => fn.index = 1

\* C14 amended: on 00:00Z, 01:00Z, 02:00Z with the clock at 01:40Z the
\* selected index is 2 (02:00Z is 20 minutes away, 01:00Z is 40); index 1 is
\* selected with the clock at 01:30Z, where both are 30 minutes away.
C14_SelectsIndexTwo ==
    (fn.op = "get_closest_utc_index" /\ fn.st = "done" /\ fn.times = ThreeHours) =>
      /\ fn.now = 100 => fn.index = 2
      /\ fn.now = 90 => fn.index = 1

\* the selection was made on the three hours with the clock at 01:40Z
C14_Witness ==
    /\ fn.op = "get_closest_utc_index" /\ fn.st = "done"
    /\ fn.times = ThreeHours
    /\ fn.now = 100
    /\ fn.index = 2

\* the label of the first band of the table whose upper cutoff x does not
\* exceed, the last label beyond the last cutoff
RECURSIVE BandOf(_, _, _, _)
BandOf(x, cutoffs, labels, i) ==
    IF i > Len(cutoffs) THEN labels[i]
    ELSE IF x <= cutoffs[i] THEN labels[i]
    ELSE BandOf(x, cutoffs, labels, i + 1)

AirQualityLabels ==
    << "Good", "Moderate", "Unhealthy for Sensitive Groups", "Unhealthy",
       "Very Unhealthy", "Hazardous" >>

\* C15: _get_pm25_level gives Good up to 12, Moderate up to 35, Unhealthy for
\* Sensitive Groups up to 55, Unhealthy up to 150, Very Unhealthy up to 250
\* and Hazardous above, each cutoff in the lower band: one label for every
\* value; 12.0 is Good, 12.1 is Moderate, 250.1 is Hazardous.
C15_Pm25Bands ==
    (fn.op = "get_pm25_level" /\ fn.st = "done") =>
      /\ fn.label = BandOf(fn.x, <<Tenths(12), Tenths(35), Tenths(55), Tenths(150), Tenths(250)>>,
                           AirQualityLabels, 1)
      /\ fn.x = Tenths(12) => fn.label = "Good"
      /\ fn.x = Tenths(12) + 1 => fn.label = "Moderate"
      /\ fn.x = Tenths(250) + 1 => fn.label = "Hazardous"
      /\ Cardinality({i \in 1..Len(AirQualityLabels) : AirQualityLabels[i] = fn.label}) = 1

\* the level of 35.0 was asked for and came out Moderate
C15_Witness ==
    /\ fn.op = "get_pm25_level" /\ fn.st = "done"
    /\ fn.x = Tenths(35)
    /\ fn.label = "Moderate"

\* C16: _get_pm10_level gives Good up to 54, Moderate up to 154, Unhealthy for
\* Sensitive Groups up to 254, Unhealthy up to 354, Very Unhealthy up to 424
\* and Hazardous above, each cutoff in the lower band.
C16_Pm10Bands ==
    (fn.op = "get_pm10_level" /\ fn.st = "done") =>
      /\ fn.label = BandOf(fn.x, <<Tenths(54), Tenths(154), Tenths(254), Tenths(354), Tenths(424)>>,
                           AirQualityLabels, 1)
      /\ fn.x = Tenths(54) => fn.label = "Good"
      /\ fn.x = Tenths(424) + 1 => fn.label = "Hazardous"

\* the level of 154.0 was asked for and came out Moderate
C16_Witness ==
    /\ fn.op = "get_pm10_level" /\ fn.st = "done"
    /\ fn.x = Tenths(154)
    /\ fn.label = "Moderate"

\* k is round(x), x being degrees / 22.5 = fn.x / 90: an integer nearest to x,
\* the even one when two are equally near
IsRounded(k) ==
    /\ Abs(fn.x - 90 * k) <= 45
    /\ Abs(fn.x - 90 * k) = 45 => k % 2 = 0

UvBand(u) ==
    IF u < Quarters(3) THEN "Low"
    ELSE IF u < Quarters(6) THEN "Moderate"
    ELSE IF u < Quarters(8) THEN "High"
    ELSE IF u < Quarters(11) THEN "Very High"
    ELSE "Extreme"

UvLabels == {"Low", "Moderate", "High", "Very High", "Extreme"}

\* _get_uv_warning gives Low below 3, Moderate below 6, High below 8, Very
\* High below 11 and Extreme from 11 on
UvBanding ==
    (fn.op = "get_uv_warning" /\ fn.st = "done") =>
      /\ fn.label = UvBand(fn.x)
      /\ fn.x = Quarters(3) => fn.label = "Moderate"
      /\ fn.x = Quarters(11) => fn.label = "Extreme"

\* C18 as stated: the banding is as above, and the current-weather sentence
\* carries the label of the band of the record's UV index.
C18_SentenceCarriesUvLabel ==
    /\ UvBanding
    /\ (fn.op = "format_current_weather_response" /\ fn.st = "done") =>
         Contains(fn.text, <<" (", UvBand(fn.x), ").">>)

\* C18 amended: the banding is as above; the current-weather sentence has a
\* UV part only when the record's UV index is greater than 3, and then it
\* carries the label of the band of that index and no other; for an index of 3
\* or less it carries no UV label.
C18_SentenceCarriesUvLabelAboveThree ==
    /\ UvBanding
    /\ (fn.op = "format_current_weather_response" /\ fn.st = "done") =>
         IF fn.x > Quarters(3)
         THEN /\ Contains(fn.text, <<" UV index is ">>)
              /\ Contains(fn.text, <<" (", UvBand(fn.x), ").">>)
              /\ \A l \in UvLabels \ {UvBand(fn.x)} : ~Contains(fn.text, <<l>>)
         ELSE /\ ~Contains(fn.text, <<" UV index is ">>)
              /\ \A l \in UvLabels : ~Contains(fn.text, <<l>>)

\* a record with a UV index of 8.0 was formatted: the sentence says Very High
C18_Witness ==
    /\ fn.op = "format_current_weather_response" /\ fn.st = "done"
    /\ fn.x = Quarters(8)
    /\ Contains(fn.text, <<" UV index is ", "8", ".", "0", " (", "Very High", ").">>)

-----------------------------------------------------------------------------
(* Claims about the error texts of the city-based handlers *)

\* a city-based handler has ended on a failure
CityToolFailed ==
    /\ inv.st = "done"
    /\ inv.exc # NoExc
    /\ inv.handler.cls \in CityHandlers

\* the answer to the last request of the invocation, and the API it came from
LastAnswer == inv.answers[Len(inv.answers)]
LastApi == inv.http[Len(inv.answers)].api

\* the last request met a network error / a status other than 200 / a body
\* that is not JSON
NetworkFailure == inv.answers # <<>> /\ LastAnswer.err
StatusFailure == inv.answers # <<>> /\ ~LastAnswer.err /\ LastAnswer.status # 200
NotJsonFailure ==
    inv.answers # <<>> /\ ~LastAnswer.err /\ LastAnswer.status = 200
      /\ LastAnswer.body = "not_json"
\* the geocoder answered 200 without a result for the city
CityNotFound ==
    inv.answers # <<>> /\ LastApi = "geocoding" /\ ~LastAnswer.err
      /\ LastAnswer.status = 200 /\ LastAnswer.body \in {"no_results_key", "empty_results"}

\* the text has the prefix of the expected / of the unexpected failures, at its
\* start or at the start of the "error" member of its JSON object
HasExpectedPrefix == inv.result[1].text[1] = "Error: "
HasUnexpectedPrefix ==
    \/ inv.result[1].text[1] = "Unexpected error occurred: "
    \/ /\ inv.result[1].text[1] = "{\n  \"error\": "
       /\ inv.result[1].text[3] = "Unexpected error occurred: "

\* C19 as stated: an unresolved city and a status other than 200 are rendered
\* with "Error: ", every other failure (network error, malformed response,
\* anything else) with "Unexpected error occurred: ", never the other way.
C19_PrefixByFailureClass ==
    CityToolFailed =>
      IF CityNotFound \/ StatusFailure
      THEN HasExpectedPrefix /\ ~HasUnexpectedPrefix
      ELSE HasUnexpectedPrefix /\ ~HasExpectedPrefix

\* the failures that do not reach the handler as a ValueError: a missing
\* required argument, a geocoding result that is not an object, null values in
\* the record the sentence is built from, an air-quality body without "hourly"
ReachesHandlerAsOther ==
    \/ inv.answers = <<>>
    \/ /\ inv.answers # <<>> /\ ~LastAnswer.err /\ LastAnswer.status = 200
       /\ \/ LastApi = "geocoding" /\ LastAnswer.body = "result_not_object"
          \/ LastApi = "forecast" /\ LastAnswer.body = "null_values"
          \/ LastApi = "air-quality" /\ LastAnswer.body = "no_hourly"

\* C19 amended: the handlers tell apart the failures that reach them as a
\* ValueError from all others. The first class holds the unresolved city and
\* the status other than 200, and also the network errors, the bodies that are
\* not JSON and the responses the services find malformed; the three sentence
\* tools render it with "Error: ", the two details tools as the bare message in
\* a JSON object {"error": ...}. The second class (a missing required argument,
\* type errors on the data) carries "Unexpected error occurred: ". No text
\* carries both prefixes.
C19_PrefixByExceptionType ==
    CityToolFailed =>
      /\ inv.caught = "run_tool"
      /\ ~(HasExpectedPrefix /\ HasUnexpectedPrefix)
      /\ HasUnexpectedPrefix <=> ReachesHandlerAsOther
      /\ (NetworkFailure \/ StatusFailure \/ NotJsonFailure \/ CityNotFound)
           => ~HasUnexpectedPrefix
      /\ IF inv.handler.cls \in SimpleCityHandlers
         THEN ~ReachesHandlerAsOther => HasExpectedPrefix
         ELSE /\ ~HasExpectedPrefix
              /\ inv.result[1].text[1] = "{\n  \"error\": "
              /\ ~ReachesHandlerAsOther => Contains(inv.result[1].text, json_string(inv.exc.msg))

\* a network error on the forecast request of get_current_weather came back
\* with the prefix of the expected failures
C19_Witness ==
    /\ CityToolFailed
    /\ inv.handler.cls = "GetCurrentWeatherToolHandler"
    /\ Len(inv.answers) = 2
    /\ NetworkFailure
    /\ HasExpectedPrefix

\* the geocoding requests of the invocation that were answered 200 without a result
UnresolvedAt ==
    {k \in 1..Len(inv.answers) :
       /\ inv.http[k].api = "geocoding"
       /\ ~inv.answers[k].err /\ inv.answers[k].status = 200
       /\ inv.answers[k].body \in {"no_results_key", "empty_results"}}

\* the invocation ended at its k-th request with one text item and no raise
EndedWithOneTextAt(k) ==
    /\ inv.st = "done"
    /\ inv.outcome = "returned"
    /\ Len(inv.http) = k
    /\ Len(inv.result) = 1
    /\ inv.result[1].type = "text"
    /\ Contains(inv.result[1].text, <<"No coordinates found for city: ">>)

-----------------------------------------------------------------------------
(* The service functions called on their own, each on every input of a grid *)

\* no service function has been called on its own
NoService == [op |-> "none", st |-> "none", city |-> PyNone, r |-> Response(TRUE, 0, ""),
              hourly |-> <<>>, now |-> 0, exc |-> NoExc, coords |-> NoCoords,
              result |-> <<>>]

Cities == {PyStr("Paris"), PyStr("Zürich"), PyNone}

\* the bodies of GeoBodies and one whose first result has no longitude
AllGeoBodies == GeoBodies \cup {"result_without_longitude"}

\* what the geocoding API may answer: any body under any status, or no answer
GeoResponses ==
    Responses(AllGeoBodies)
    \cup {Response(FALSE, st, b) : st \in {404, 500}, b \in AllGeoBodies}

GeoCalls ==
    { [NoService EXCEPT !.op = "get_coordinates", !.st = "ready", !.city = c, !.r = r] :
        c \in Cities, r \in GeoResponses }

\* await self.get_coordinates(fn.city) when the geocoding API answers fn.r
GetCoordinates ==
    /\ fn.st = "ready" /\ fn.op = "get_coordinates"
    /\ LET e == get_coordinates(fn.city, fn.r) IN
         fn' = [fn EXCEPT !.st = "done", !.exc = e,
                          !.coords = IF e = NoExc THEN Coordinates(fn.r) ELSE NoCoords]
    /\ UNCHANGED <<tool_handlers, calls, pc, ret, inv, val>>

\* the j-th element of the hourly series key is known by its series and position
Series(key, n) ==
    PyList("", [j \in 1..n |-> [series |-> key, at |-> j - 1]])

\* hourly["time"] with n timestamps, an hour apart
TimeSeries(n) == PyList("", [j \in 1..n |-> IsoString(60 * (j - 1), "")])

\* d[k] of a dict that has the key k
DictGet(d, k) == d[DictIndex(d, k)].val

\* an extraction that reads every series at the current index without testing it
current_air_quality_unguarded(hourly, current_time) ==
    LET time == DictGet(hourly, "time").items
        r    == get_closest_utc_index(time, current_time)
        i    == r.index + 1
        rest == SelectSeq(hourly, LAMBDA kv : kv.key # "time")
    IN  IF r.exc # NoExc THEN [exc |-> r.exc, current_aq |-> <<>>]
        ELSE IF \E k \in 1..Len(rest) : rest[k].val.ty # "list"
        THEN [exc |-> Exc("TypeError", <<"'NoneType' object is not subscriptable">>),
              current_aq |-> <<>>]
        ELSE IF \E k \in 1..Len(rest) : Len(rest[k].val.items) < i
        THEN [exc |-> Exc("IndexError", <<"list index out of range">>), current_aq |-> <<>>]
        ELSE [ exc |-> NoExc,
               current_aq |-> << [key |-> "time", val |-> time[i]] >>
                              \o [k \in 1..Len(rest) |->
                                    [key |-> rest[k].key, val |-> rest[k].val.items[i]]] ]

\* get_current_air_quality_index(aq_data) when the clock reads current_time:
\* the exception it raises and the dict it returns; i is the 1-based position
\* of the 0-based current_index
current_air_quality(hourly, current_time) ==
    LET time   == DictGet(hourly, "time").items
        r      == get_closest_utc_index(time, current_time)
        i      == r.index + 1
        picked == SelectSeq(hourly, LAMBDA kv : /\ kv.key # "time"
                                                /\ kv.val.ty = "list"
                                                /\ Len(kv.val.items) > r.index)
    IN  IF r.exc # NoExc THEN [exc |-> r.exc, current_aq |-> <<>>]
        ELSE [ exc |-> NoExc,
               current_aq |-> << [key |-> "time", val |-> time[i]] >>
                              \o [k \in 1..Len(picked) |->
                                    [key |-> picked[k].key, val |-> picked[k].val.items[i]]] ]

\* what the air-quality API may send under a pollutant key: nothing, null, or a
\* series of any length up to the longest time series
SeriesOf(key) ==
    { <<>>, << [key |-> key, val |-> PyNone] >> }
    \cup { << [key |-> key, val |-> Series(key, n)] >> : n \in 0..MaxTimes }

\* aq_data["hourly"]: the time series among the pollutant series
AirHourlies ==
    { a \o << [key |-> "time", val |-> TimeSeries(n)] >> \o b \o c :
        n \in 0..MaxTimes, a \in SeriesOf("pm10"), b \in SeriesOf("pm2_5"),
        c \in SeriesOf("ozone") }

AirIndexCalls ==
    { [NoService EXCEPT !.op = "get_current_air_quality_index", !.st = "ready",
                        !.hourly = h, !.now = n] : h \in AirHourlies, n \in Nows }

\* air_quality_service.get_current_air_quality_index on fn.hourly, the clock at fn.now
GetCurrentAirQualityIndex ==
    /\ fn.st = "ready" /\ fn.op = "get_current_air_quality_index"
    /\ LET r == current_air_quality(fn.hourly, fn.now) IN
         fn' = [fn EXCEPT !.st = "done", !.exc = r.exc, !.result = r.current_aq]
    /\ UNCHANGED <<tool_handlers, calls, pc, ret, inv, val>>

\* utils.weather_descriptions: utils.py:197-227
weather_descriptions ==
    << [key |-> 0, val |-> "Clear sky"],
       [key |-> 1, val |-> "Mainly clear"],
       [key |-> 2, val |-> "Partly cloudy"],
       [key |-> 3, val |-> "Overcast"],
       [key |-> 45, val |-> "Fog"],
       [key |-> 48, val |-> "Depositing rime fog"],
       [key |-> 51, val |-> "Light drizzle"],
       [key |-> 53, val |-> "Moderate drizzle"],
       [key |-> 55, val |-> "Dense drizzle"],
       [key |-> 56, val |-> "Light freezing drizzle"],
       [key |-> 57, val |-> "Dense freezing drizzle"],
       [key |-> 61, val |-> "Slight rain"],
       [key |-> 63, val |-> "Moderate rain"],
       [key |-> 65, val |-> "Heavy rain"],
       [key |-> 66, val |-> "Light freezing rain"],
       [key |-> 67, val |-> "Heavy freezing rain"],
       [key |-> 71, val |-> "Slight snow fall"],
       [key |-> 73, val |-> "Moderate snow fall"],
       [key |-> 75, val |-> "Heavy snow fall"],
       [key |-> 77, val |-> "Snow grains"],
       [key |-> 80, val |-> "Slight rain showers"],
       [key |-> 81, val |-> "Moderate rain showers"],
       [key |-> 82, val |-> "Violent rain showers"],
       [key |-> 85, val |-> "Slight snow showers"],
       [key |-> 86, val |-> "Heavy snow showers"],
       [key |-> 95, val |-> "Thunderstorm"],
       [key |-> 96, val |-> "Thunderstorm with slight hail"],
       [key |-> 99, val |-> "Thunderstorm with heavy hail"] >>

\* utils.weather_descriptions.get(code, default)
weather_descriptions_get(code, default) ==
    IF DictHas(weather_descriptions, code) THEN DictGet(weather_descriptions, code)
    ELSE default

\* the fields of a record of weather_data after "time", each with the hourly
\* series it is read from, in the order the record is built
RecordFields ==
    << [field |-> "temperature_c", series |-> "temperature_2m"],
       [field |-> "humidity_percent", series |-> "relative_humidity_2m"],
       [field |-> "dew_point_c", series |-> "dew_point_2m"],
       [field |-> "weather_code", series |-> "weather_code"],
       [field |-> "wind_speed_kmh", series |-> "wind_speed_10m"],
       [field |-> "wind_direction_degrees", series |-> "wind_direction_10m"],
       [field |-> "wind_gusts_kmh", series |-> "wind_gusts_10m"],
       [field |-> "precipitation_mm", series |-> "precipitation"],
       [field |-> "rain_mm", series |-> "rain"],
       [field |-> "snowfall_cm", series |-> "snowfall"],
       [field |-> "precipitation_probability_percent", series |-> "precipitation_probability"],
       [field |-> "pressure_hpa", series |-> "pressure_msl"],
       [field |-> "cloud_cover_percent", series |-> "cloud_cover"],
       [field |-> "uv_index", series |-> "uv_index"],
       [field |-> "apparent_temperature_c", series |-> "apparent_temperature"],
       [field |-> "visibility_m", series |-> "visibility"] >>

\* the record built for 1-based position i, every series having an element there
weather_record(hourly, i) ==
    [ time   |-> DictGet(hourly, "time").items[i],
      fields |-> [k \in 1..Len(RecordFields) |->
                    [key |-> RecordFields[k].field,
                     val |-> DictGet(hourly, RecordFields[k].series).items[i]]],
      weather_description |->
        weather_descriptions_get(DictGet(hourly, "weather_code").items[i].code,
                                 "Unknown weather condition") ]

\* the series whose subscription fails while the record at position i is built:
\* 0 when none does, else the first of them in the order of the record
first_failing(hourly, i) ==
    LET failing == { k \in 1..Len(RecordFields) :
                       \/ ~DictHas(hourly, RecordFields[k].series)
                       \/ Len(DictGet(hourly, RecordFields[k].series).items) < i }
    IN  IF failing = {} THEN 0 ELSE CHOOSE k \in failing : \A j \in failing : k <= j

\* what hourly[series][i] raises at position i for the k-th field
subscript_error(hourly, i, k) ==
    IF ~DictHas(hourly, RecordFields[k].series)
    THEN Exc("KeyError", <<"'", RecordFields[k].series, "'">>)
    ELSE Exc("IndexError", <<"list index out of range">>)

\* a loop that stops at the shortest series and returns the records it has built
weather_records_truncating(city, hourly) ==
    LET data_length == Len(DictGet(hourly, "time").items)
        complete == { i \in 0..data_length :
                        \A j \in 1..i : first_failing(hourly, j) = 0 }
        n == CHOOSE i \in complete : \A j \in complete : j <= i
    IN  [exc |-> NoExc, weather_data |-> [i \in 1..n |-> weather_record(hourly, i)]]

\* get_weather_by_date_range from `hourly = data["hourly"]` to its return or to
\* its except clauses: the exception raised and the weather_data returned
weather_records(city, hourly) ==
    LET data_length == Len(DictGet(hourly, "time").items)
        broken == { i \in 1..data_length : first_failing(hourly, i) # 0 }
    IN  IF broken # {}
        THEN LET i == CHOOSE b \in broken : \A j \in broken : b <= j IN
               [ exc |-> weather_except(city, subscript_error(hourly, i,
                                                              first_failing(hourly, i))),
                 weather_data |-> <<>> ]
        ELSE [ exc |-> NoExc,
               weather_data |-> [i \in 1..data_length |-> weather_record(hourly, i)] ]

\* the weather codes of an hourly series, each known by its position and its
\* number: clear sky, a code the table does not know, thunderstorm, then unknown
\* codes
WeatherCodes(n) ==
    PyList("", [j \in 1..n |->
                 [series |-> "weather_code", at |-> j - 1,
                  code |-> CASE j = 1 -> 0 [] j = 2 -> 4 [] j = 3 -> 95 [] OTHER -> 100]])

\* the hourly series a forecast body holds under key, n elements long
ForecastSeries(key, n) == IF key = "weather_code" THEN WeatherCodes(n) ELSE Series(key, n)

\* data["hourly"] with n timestamps and every requested series n long, but for
\* one series, which is absent (m < 0) or m long
ForecastHourly(n, odd, m) ==
    << [key |-> "time", val |-> TimeSeries(n)] >>
    \o [ k \in 1..Len(SelectSeq(RecordFields, LAMBDA f : f.series # odd \/ m >= 0)) |->
           LET f == SelectSeq(RecordFields, LAMBDA g : g.series # odd \/ m >= 0)[k] IN
             [key |-> f.series,
              val |-> ForecastSeries(f.series, IF f.series = odd THEN m ELSE n)] ]

DateRangeCalls ==
    { [NoService EXCEPT !.op = "get_weather_by_date_range", !.st = "ready",
                        !.city = PyStr("Paris"), !.hourly = ForecastHourly(n, odd, m)] :
        n \in 0..MaxTimes, m \in -1..MaxTimes,
        odd \in {RecordFields[k].series : k \in 1..Len(RecordFields)} }

\* weather_service.get_weather_by_date_range once the forecast API has answered
\* 200 with a JSON body whose "hourly" is fn.hourly
GetWeatherByDateRange ==
    /\ fn.st = "ready" /\ fn.op = "get_weather_by_date_range"
    /\ LET r == weather_records(fn.city, fn.hourly) IN
         fn' = [fn EXCEPT !.st = "done", !.exc = r.exc, !.result = r.weather_data]
    /\ UNCHANGED <<tool_handlers, calls, pc, ret, inv, val>>

InitServices ==
    /\ tool_handlers = <<>>
    /\ calls = <<>>
    /\ pc = "boot"
    /\ ret = NoRet
    /\ inv = Idle
    /\ val = NoVal
    /\ fn \in GeoCalls \cup AirIndexCalls \cup DateRangeCalls

NextServices ==
    \/ GetCoordinates
    \/ GetCurrentAirQualityIndex
    \/ GetWeatherByDateRange

SpecServices == InitServices /\ [][NextServices]_vars

-----------------------------------------------------------------------------
(* Claims about the classification of geocoding failures *)

UpstreamError(e) ==
    e.type = "ValueError" /\ e.msg[1] = "Geocoding API returned status "
LocationNotFound(e, city) ==
    e.type = "ValueError" /\ e.msg = <<"No coordinates found for city: ", Str(city)>>
MalformedResponse(e) ==
    e.type = "ValueError" /\ e.msg[1] = "Invalid response format from geocoding API: "

GeocodingDone == fn.op = "get_coordinates" /\ fn.st = "done"
Answered200(bodies) == ~fn.r.err /\ fn.r.status = 200 /\ fn.r.body \in bodies

\* C21 as stated: a non-success status is an upstream error whatever the body; a
\* success with an empty result set is location-not-found naming the city; a
\* success whose body has no "results" key, or whose first result has no latitude
\* or no longitude, is a malformed response; otherwise the coordinates of the
\* first result are returned
C21_MissingKeysAreMalformed ==
    GeocodingDone =>
      /\ (~fn.r.err /\ fn.r.status # 200) => UpstreamError(fn.exc)
      /\ Answered200({"empty_results"}) => LocationNotFound(fn.exc, fn.city)
      /\ Answered200({"no_results_key", "result_without_latitude",
                      "result_without_longitude"}) => MalformedResponse(fn.exc)
      /\ Answered200({"ok", "ok_elsewhere"}) =>
            /\ fn.exc = NoExc
            /\ fn.coords = [lat |-> geo_results(fn.r.body)[1].latitude,
                            lon |-> geo_results(fn.r.body)[1].longitude]

\* C21 amended: as above, except that a success whose body has no "results" key
\* is location-not-found naming the city, like an empty result set; only a first
\* result without latitude or longitude is a malformed response
C21_MissingResultsKeyIsNotFound ==
    GeocodingDone =>
      /\ (~fn.r.err /\ fn.r.status # 200) => UpstreamError(fn.exc)
      /\ Answered200({"empty_results", "no_results_key"}) =>
            LocationNotFound(fn.exc, fn.city)
      /\ Answered200({"result_without_latitude", "result_without_longitude"}) =>
            MalformedResponse(fn.exc)
      /\ Answered200({"ok", "ok_elsewhere"}) =>
            /\ fn.exc = NoExc
            /\ fn.coords = [lat |-> geo_results(fn.r.body)[1].latitude,
                            lon |-> geo_results(fn.r.body)[1].longitude]

\* a lookup of Paris answered 200 with a body that has no "results" key has ended
\* as location-not-found
C21_Witness ==
    /\ GeocodingDone
    /\ fn.city = PyStr("Paris")
    /\ Answered200({"no_results_key"})
    /\ LocationNotFound(fn.exc, fn.city)

-----------------------------------------------------------------------------
(* ConvertTimeToolHandler.run_tool, the conversion itself: tools_time.py:205-228 *)
(* An instant is a number of minutes since 2024-03-10T07:00 UTC, the instant  *)
(* at which America/New_York moves its clocks from 02:00 to 03:00. A wall     *)
(* reading is the number of minutes its date and time read from               *)
(* 2024-03-10T07:00. Offsets are minutes east of UTC.                         *)

ConvertZones == {"UTC", "America/New_York", "Asia/Kolkata"}

\* the offset zone has at instant t
zone_offset_at(zone, t) ==
    CASE zone = "UTC"              -> 0
      [] zone = "Asia/Kolkata"     -> 330
      [] zone = "America/New_York" -> IF t < 0 THEN -300 ELSE -240

\* dt.utcoffset() of a datetime with fold=0: the offset of its zone at its wall
\* reading; a reading the zone skips takes the offset in force before the change
dt_utcoffset(dt) ==
    CASE dt.tzinfo = "UTC"              -> 0
      [] dt.tzinfo = "Asia/Kolkata"     -> 330
      [] dt.tzinfo = "America/New_York" -> IF dt.wall < -240 THEN -300 ELSE -240

\* the instant a datetime denotes: its wall reading less its offset
dt_instant(dt) == dt.wall - dt_utcoffset(dt)

\* datetime.now(zone) when the clock is at instant t
datetime_now(zone, t) == [wall |-> t + zone_offset_at(zone, t), tzinfo |-> zone]

\* datetime.fromisoformat(s): the wall reading; an offset suffix becomes the tzinfo
fromisoformat(s) == [wall |-> s.minutes, tzinfo |-> IF s.zone = "" THEN "None" ELSE s.zone]

\* naive_time.replace(tzinfo=from_timezone): the same reading, whatever tzinfo it had
replace_tzinfo(dt, zone) == [wall |-> dt.wall, tzinfo |-> zone]

\* dt.astimezone(zone): dt itself when it is already in zone, else the reading
\* zone has at the instant of dt
astimezone(dt, zone) ==
    IF dt.tzinfo = zone THEN dt ELSE datetime_now(zone, dt_instant(dt))

\* dt.isoformat(timespec="seconds"): the reading and the offset suffix
isoformat(dt) == [minutes |-> dt.wall, offset |-> dt_utcoffset(dt)]

\* the word or the ISO 8601 string a caller sends as datetime_str
Word(w) == [kind |-> "word", word |-> w, minutes |-> 0, zone |-> ""]
Iso(minutes, zone) == [kind |-> "iso", word |-> "", minutes |-> minutes, zone |-> zone]

\* datetime_str.lower() == "now"
is_now(datetime_str) == datetime_str.kind = "word" /\ datetime_str.word \in {"now", "NOW", "Now"}

\* datetime_str[:-1] of a string that ends in Z
drop_z(datetime_str) == [datetime_str EXCEPT !.zone = ""]

\* a parse that reads a trailing Z as UTC and moves the reading into from_timezone
source_time_z_as_utc(datetime_str, from_timezone, now) ==
    IF is_now(datetime_str) THEN datetime_now(from_timezone, now)
    ELSE IF datetime_str.zone = "Z"
    THEN astimezone(replace_tzinfo(fromisoformat(drop_z(datetime_str)), "UTC"), from_timezone)
    ELSE replace_tzinfo(fromisoformat(datetime_str), from_timezone)

\* source_time of lines 205-217
source_time(datetime_str, from_timezone, now) ==
    IF is_now(datetime_str) THEN datetime_now(from_timezone, now)
    ELSE IF datetime_str.zone = "Z"
    THEN replace_tzinfo(fromisoformat(drop_z(datetime_str)), from_timezone)
    ELSE replace_tzinfo(fromisoformat(datetime_str), from_timezone)

\* (target.utcoffset().total_seconds() - source.utcoffset().total_seconds()) / 3600,
\* in quarters of an hour
time_difference_hours(source, target) ==
    ((dt_utcoffset(target) * 60 - dt_utcoffset(source) * 60) * 4) \div 3600

\* conversion_result of lines 219-228
conversion_result(datetime_str, from_timezone, to_timezone, now) ==
    LET source == source_time(datetime_str, from_timezone, now)
        target == astimezone(source, to_timezone)
    IN  [ original_datetime     |-> isoformat(source),
          original_timezone     |-> from_timezone,
          converted_datetime    |-> isoformat(target),
          converted_timezone    |-> to_timezone,
          time_difference_hours |-> time_difference_hours(source, target) ]

\* the wall readings a caller sends: well before the change of clocks, the hour
\* before it, the skipped hour, the hour after it, well after it
WallReadings == {-900, -330, -300, -270, -240, -210, 600}

\* the instants at which the clock is read
ConvertNows == {-60, -1, 0, 60}

DatetimeStrs ==
    {Word("now"), Word("NOW")}
    \cup {Iso(m, z) : m \in WallReadings, z \in {"", "Z", "+01:00"}}

NoConversion ==
    [ original_datetime |-> [minutes |-> 0, offset |-> 0], original_timezone |-> "",
      converted_datetime |-> [minutes |-> 0, offset |-> 0], converted_timezone |-> "",
      time_difference_hours |-> 0 ]

InitTime ==
    /\ tool_handlers = <<>>
    /\ calls = <<>>
    /\ pc = "boot"
    /\ ret = NoRet
    /\ inv = Idle
    /\ val = NoVal
    /\ fn \in { [op |-> "convert_time", st |-> "ready", datetime_str |-> d,
                  from_timezone |-> f, to_timezone |-> t, now |-> n,
                  result |-> NoConversion] :
                  d \in DatetimeStrs, f \in ConvertZones, t \in ConvertZones,
                  n \in ConvertNows }

\* convert_time on valid zones and a datetime_str that parses, the clock at fn.now
ConvertTime ==
    /\ fn.st = "ready" /\ fn.op = "convert_time"
    /\ fn' = [fn EXCEPT !.st = "done",
                        !.result = conversion_result(fn.datetime_str, fn.from_timezone,
                                                     fn.to_timezone, fn.now)]
    /\ UNCHANGED <<tool_handlers, calls, pc, ret, inv, val>>

NextTime == ConvertTime

SpecTime == InitTime /\ [][NextTime]_vars

-----------------------------------------------------------------------------
(* Claims about the conversion of times *)

Converted == fn.op = "convert_time" /\ fn.st = "done"

\* the instant an ISO 8601 string with an offset suffix denotes
IsoInstant(s) == s.minutes - s.offset

\* C22: time_difference_hours is the offset of the destination zone less the
\* offset of the source zone, both at the instant converted; with "now" and a
\* source of UTC it is the offset of the destination, negative west of UTC; the
\* source and converted datetimes denote the same instant
C22_DifferenceOfOffsetsAtInstant ==
    Converted =>
      LET t == IsoInstant(fn.result.original_datetime) IN
        /\ fn.result.time_difference_hours * 15 =
             zone_offset_at(fn.to_timezone, t) - zone_offset_at(fn.from_timezone, t)
        /\ (is_now(fn.datetime_str) /\ fn.from_timezone = "UTC") =>
             /\ t = fn.now
             /\ fn.result.time_difference_hours * 15 = zone_offset_at(fn.to_timezone, t)
             /\ fn.to_timezone = "America/New_York" => fn.result.time_difference_hours < 0
        /\ IsoInstant(fn.result.converted_datetime) = t

-----------------------------------------------------------------------------
(* Two call_tool invocations in flight at once. Each is a coroutine of the   *)
(* one event loop: it runs from a resumption to its next `await client.get`  *)
(* without interruption, and the other may run while it waits. In this       *)
(* specification inv is the pair of their frames; the registry, with the     *)
(* handler objects in it, is the state they share.                           *)

\* the responses the upstream APIs give to the two invocations
ConcurrentGeoResponses ==
    {Response(TRUE, 0, ""), Response(FALSE, 500, "")}
    \cup {Response(FALSE, 200, b) : b \in {"empty_results", "ok", "ok_elsewhere"}}
ConcurrentWeatherResponses ==
    {Response(TRUE, 0, "")} \cup {Response(FALSE, 200, b) : b \in {"short_series", "ok"}}
ConcurrentAirResponses ==
    {Response(TRUE, 0, "")} \cup {Response(FALSE, 200, b) : b \in {"empty_time", "ok"}}

\* what an upstream API may answer to the request frame v waits on
ResponsesAwaited(v) ==
    CASE v.st = "await_geo"     -> ConcurrentGeoResponses
      [] v.st = "await_weather" -> ConcurrentWeatherResponses
      [] v.st = "await_air"     -> ConcurrentAirResponses
      [] OTHER                  -> {}

Dict(m) == [kind |-> "dict", d |-> m]

\* the requests the two clients send
ConcurrentCalls ==
    { [name |-> "get_current_weather", arguments |-> Dict([city |-> PyStr("Paris")])],
      [name |-> "get_weather_details",
       arguments |-> Dict([city |-> PyStr("Paris"), include_forecast |-> PyBool(TRUE)])],
      [name |-> "get_weather_byDateTimeRange",
       arguments |-> Dict([city |-> PyStr("Zürich"), start_date |-> PyStr("2024-01-01"),
                           end_date |-> PyStr("2024-01-02")])],
      [name |-> "get_air_quality", arguments |-> Dict([city |-> PyStr("Zürich")])],
      [name |-> "get_current_datetime", arguments |-> Dict([timezone_name |-> PyStr("UTC")])],
      [name |-> "get_current_weather", arguments |-> Dict(EmptyMap)],
      [name |-> "get_current_weather", arguments |-> Dict([city |-> PyNone])],
      [name |-> "get_air_quality_details", arguments |-> Dict([city |-> PyStr("")])],
      [name |-> "get_weather_byDateTimeRange",
       arguments |-> Dict([city |-> PyStr(""), start_date |-> PyNone,
                           end_date |-> PyStr("")])],
      [name |-> "convert_time",
       arguments |-> Dict([datetime_str |-> PyNone, from_timezone |-> PyStr("UTC"),
                           to_timezone |-> PyStr("America/New_York")])],
      [name |-> "no_such_tool", arguments |-> Dict(EmptyMap)] }

\* the coroutine of frame v resumes with the response r and runs to its next await
resume(v, r) ==
    CASE v.st = "await_geo"     -> geocoding_response(v, r)
      [] v.st = "await_weather" -> forecast_response(v, r)
      [] v.st = "await_air"     -> air_quality_response(v, r)

\* services that keep the coordinates they looked up on the handler object, where
\* the other invocation of the same handler picks them up
step_coordinates_on_handler(frames, i, r) ==
    LET v == resume(frames[i], r) IN
      [ j \in DOMAIN frames |->
          IF j = i THEN v
          ELSE IF /\ frames[i].st = "await_geo" /\ v.coords # NoCoords
                  /\ frames[j].st \notin {"idle", "done"}
                  /\ frames[j].handler = frames[i].handler
               THEN [frames[j] EXCEPT !.coords = v.coords]
               ELSE frames[j] ]

\* a step of invocation i: everything run_tool and the services read and write
\* between two awaits is the arguments and the local variables of frame i
step(frames, i, r) == [frames EXCEPT ![i] = resume(frames[i], r)]

InitConcurrent ==
    /\ tool_handlers = <<>>
    /\ calls = <<>>
    /\ pc = "boot"
    /\ ret = NoRet
    /\ inv = <<Idle, Idle>>
    /\ val = NoVal
    /\ fn = NoCall

\* the transport starts call_tool(name, arguments) for client i
ConcurrentCallTool ==
    /\ pc = "serving"
    /\ \E i \in DOMAIN inv, c \in ConcurrentCalls :
         /\ inv[i].st = "idle"
         /\ inv' = [inv EXCEPT ![i] = call_tool(tool_handlers, c.name, c.arguments)]
    /\ UNCHANGED <<tool_handlers, calls, pc, ret, val, fn>>

\* an upstream API answers the request of invocation i, or the request fails
ConcurrentResponse ==
    /\ \E i \in DOMAIN inv :
         \E r \in ResponsesAwaited(inv[i]) : inv' = step(inv, i, r)
    /\ UNCHANGED <<tool_handlers, calls, pc, ret, val, fn>>

\* the transport sends the outcome of invocation i to its client
ConcurrentDeliver ==
    /\ \E i \in DOMAIN inv :
         /\ inv[i].st = "done"
         /\ inv' = [inv EXCEPT ![i] = Idle]
    /\ UNCHANGED <<tool_handlers, calls, pc, ret, val, fn>>

NextConcurrent ==
    \/ Main
    \/ ConcurrentCallTool
    \/ ConcurrentResponse
    \/ ConcurrentDeliver

SpecConcurrent == InitConcurrent /\ [][NextConcurrent]_vars

-----------------------------------------------------------------------------
(* Claims about concurrent invocations *)

RECURSIVE Replay(_, _, _)
\* the frame of an invocation that runs alone and receives answers[k..] in order
Replay(v, answers, k) ==
    IF k > Len(answers) THEN v ELSE Replay(resume(v, answers[k]), answers, k + 1)

\* call_tool(name, arguments) run alone against the registry main builds
Alone(name, arguments, answers) ==
    Replay(call_tool(register_all_tools(<<>>, 0), name, arguments), answers, 1)

-----------------------------------------------------------------------------
(* Claims about what an invocation writes to the log *)

\* the strings supplied as argument values to the invocation in flight
SuppliedValues ==
    { inv.arguments.d[k].v : k \in {x \in DOMAIN inv.arguments.d :
                                      inv.arguments.d[x].ty = "str"} }

\* C24: the lines an invocation writes to the log name the tool and the keys of
\* the supplied arguments and never hold a supplied value (city, dates, timezone
\* names, datetime string), whether in a progress line, in a logged request URL
\* or in a logged error message
C24_LogHoldsNoArgumentValues ==
    \A i \in 1..Len(inv.log) :
      \A value \in SuppliedValues : ~Contains(inv.log[i].msg, <<value>>)

-----------------------------------------------------------------------------
(* Claims about get_weather_details *)

DetailsEnded ==
    /\ inv.st = "done"
    /\ inv.handler.cls = "GetWeatherDetailsToolHandler"
    /\ Len(inv.answers) >= 1

DetailsText == inv.result[1].text
WantsForecast == Truthy(include_forecast(inv.arguments.d))
HasForecastKey == Contains(DetailsText, <<",\n  \"forecast\": ">>)
HasCurrentFields == Contains(DetailsText, <<"<current conditions>">>)
IsErrorObject ==
    /\ DetailsText[1] = "{\n  \"error\": "
    /\ ~HasCurrentFields /\ ~HasForecastKey
    /\ ~Contains(DetailsText, <<",\n  \"latitude\": ">>)
\* the forecast API was asked for a range of dates
DateRangeFetched ==
    \E k \in 1..Len(inv.http) : Contains(inv.http[k].url, <<"&start_date=">>)

\* C26: get_weather_details with include_forecast true is all or nothing: its
\* text holds the current fields and a "forecast" key exactly when both fetches
\* succeeded, and is an error object with none of the fetched data when either
\* failed, the current one fetched or not; without include_forecast there is no
\* "forecast" key and no fetch of a date range
C26_ForecastAllOrNothing ==
    DetailsEnded =>
      /\ Len(inv.result) = 1
      /\ WantsForecast =>
            /\ (HasCurrentFields /\ HasForecastKey) <=>
                 (inv.exc = NoExc /\ Len(inv.answers) = 4)
            /\ inv.exc # NoExc => IsErrorObject
            /\ HasCurrentFields <=> HasForecastKey
      /\ ~WantsForecast =>
            /\ ~HasForecastKey
            /\ ~DateRangeFetched
            /\ inv.exc = NoExc => HasCurrentFields

\* with include_forecast true the current weather was fetched, the fetch of the
\* date range then failed, and the text is an error object
C26_Witness ==
    /\ DetailsEnded
    /\ WantsForecast
    /\ Len(inv.answers) = 4
    /\ get_current_weather_try(inv.answers[2]) = NoExc
    /\ inv.exc # NoExc
    /\ IsErrorObject

-----------------------------------------------------------------------------
(* Claims about the order of the checks of convert_time *)

ConvertEnded == inv.st = "done" /\ inv.handler.cls = "ConvertTimeToolHandler"
ConvertText == inv.result[1].text
InvalidZone(x) == get_zoneinfo(x) # NoExc
InvalidTimezoneText(x) ==
    <<"Error converting time: ", "Invalid timezone: ", "'No time zone found with key ",
      Str(x), "'">>
\* datetime_str is "now" in any case, or an ISO 8601 reading once a final Z is dropped
Parses(x) ==
    /\ x.ty = "str"
    /\ \/ Lower(x.v) = "now"
       \/ IsIsoFormat(IF EndsWithZ(x.v) THEN DropLast(x.v) ELSE x.v)

\* C29: convert_time checks the required arguments, then from_timezone, then
\* to_timezone, then datetime_str; the first check that fails alone decides the
\* message, so an invalid from_timezone is the one reported whatever to_timezone
\* and datetime_str are; an invalid zone is reported as "Invalid timezone", and
\* every failure is one text item that begins "Error converting time: "
C29_FirstFailingCheckDecides ==
    ConvertEnded =>
      LET args == inv.arguments.d
          missing == validate_required_args(args, run_tool_required(inv.handler.cls))
      IN  /\ Len(inv.result) = 1
          /\ inv.exc # NoExc => ConvertText[1] = "Error converting time: "
          /\ IF missing # NoExc
             THEN ConvertText = <<"Error converting time: ">> \o missing.msg /\ inv.tz = 0
             ELSE IF InvalidZone(args["from_timezone"])
             THEN ConvertText = InvalidTimezoneText(args["from_timezone"]) /\ inv.tz = 1
             ELSE IF InvalidZone(args["to_timezone"])
             THEN ConvertText = InvalidTimezoneText(args["to_timezone"]) /\ inv.tz = 2
             ELSE IF ~Parses(args["datetime_str"])
             THEN /\ inv.exc # NoExc /\ inv.tz = 2
                  /\ ConvertText[2] \notin {"Invalid timezone: ",
                                             "Missing required arguments: "}
             ELSE inv.exc = NoExc

\* convert_time was called with a from_timezone, a to_timezone and a datetime_str
\* that are all invalid, and has reported the from_timezone
C29_Witness ==
    /\ ConvertEnded
    /\ inv.arguments.d = [from_timezone |-> PyStr("Mars/Phobos"),
                          to_timezone   |-> PyStr("Atlantis/Capital"),
                          datetime_str  |-> PyStr("garbage")]
    /\ ConvertText = InvalidTimezoneText(PyStr("Mars/Phobos"))

-----------------------------------------------------------------------------
(* Claims about the current air-quality values *)

AirIndexDone == fn.op = "get_current_air_quality_index" /\ fn.st = "done"
HourlyTime == DictGet(fn.hourly, "time").items
\* the series of fn.hourly that are lists with an element at 0-based index i
LongEnough(i) ==
    { k \in 1..Len(fn.hourly) : /\ fn.hourly[k].key # "time"
                                 /\ fn.hourly[k].val.ty = "list"
                                 /\ Len(fn.hourly[k].val.items) > i }

\* C27: the result holds the "time" entry at the closest-hour index i and, for
\* every other hourly key whose value is a list longer than i, that list's
\* element at i; a key whose value is too short or is not a list is left out
\* and raises nothing; the keys of the result are keys of the hourly data and
\* every value comes from the same index i
C27_CurrentValuesAtClosestIndex ==
    (AirIndexDone /\ HourlyTime # <<>>) =>
      LET i == get_closest_utc_index(HourlyTime, fn.now).index IN
        /\ fn.exc = NoExc
        /\ fn.result[1] = [key |-> "time", val |-> HourlyTime[i + 1]]
        /\ \A k \in LongEnough(i) :
             \E j \in 2..Len(fn.result) :
               fn.result[j] = [key |-> fn.hourly[k].key,
                               val |-> [series |-> fn.hourly[k].key, at |-> i]]
        /\ Len(fn.result) = 1 + Cardinality(LongEnough(i))
        /\ Range(DictKeys(fn.result)) \subseteq Range(DictKeys(fn.hourly))
        /\ \A j \in 2..Len(fn.result) : fn.result[j].val.at = i

\* the closest hour is the third; pm10 has three values, pm2_5 two and ozone is
\* null: the result holds the time and pm10 alone
C27_Witness ==
    /\ AirIndexDone
    /\ fn.now = 150
    /\ Len(fn.hourly) = 4
    /\ Len(HourlyTime) = 3
    /\ fn.hourly[1] = [key |-> "pm10", val |-> Series("pm10", 3)]
    /\ fn.hourly[3] = [key |-> "pm2_5", val |-> Series("pm2_5", 2)]
    /\ fn.hourly[4] = [key |-> "ozone", val |-> PyNone]
    /\ fn.result = << [key |-> "time", val |-> IsoString(120, "")],
                      [key |-> "pm10", val |-> [series |-> "pm10", at |-> 2]] >>

-----------------------------------------------------------------------------
(* Claims about the records of a date range *)

DateRangeDone == fn.op = "get_weather_by_date_range" /\ fn.st = "done"
RangeTime == DictGet(fn.hourly, "time").items
RequestedSeries == {RecordFields[k].series : k \in 1..Len(RecordFields)}
MissingSeries == {key \in RequestedSeries : ~DictHas(fn.hourly, key)}
ShorterSeries ==
    {key \in RequestedSeries \ MissingSeries :
       Len(DictGet(fn.hourly, key).items) < Len(RangeTime)}
InvalidResponseFormat ==
    /\ fn.exc.type = "ValueError"
    /\ fn.exc.msg[1] = "Invalid response format from weather API: "
    /\ fn.result = <<>>
\* one record per timestamp, in order, the i-th with every field from position i
OneRecordPerTimestamp ==
    /\ fn.exc = NoExc
    /\ Len(fn.result) = Len(RangeTime)
    /\ \A i \in 1..Len(fn.result) :
         /\ fn.result[i].time = RangeTime[i]
         /\ \A k \in 1..Len(RecordFields) :
              /\ fn.result[i].fields[k].key = RecordFields[k].field
              /\ fn.result[i].fields[k].val =
                   DictGet(fn.hourly, RecordFields[k].series).items[i]
              /\ RecordFields[k].series # "weather_code" =>
                   fn.result[i].fields[k].val = [series |-> RecordFields[k].series,
                                                 at |-> i - 1]
         /\ LET code == DictGet(fn.hourly, "weather_code").items[i].code IN
              fn.result[i].weather_description =
                IF code \in Range(DictKeys(weather_descriptions))
                THEN DictGet(weather_descriptions, code)
                ELSE "Unknown weather condition"

\* C30 as stated: the call fails with the invalid-response-format error and no
\* partial list whenever a requested series is missing or shorter than the time
\* series, and otherwise returns one record per timestamp, in order, the i-th
\* with every field from index i and an unknown weather code described as
\* "Unknown weather condition"
C30_MissingOrShorterAlwaysFails ==
    DateRangeDone =>
      IF MissingSeries # {} \/ ShorterSeries # {}
      THEN InvalidResponseFormat
      ELSE OneRecordPerTimestamp

\* C30 amended: as above when the time series has an entry; when it has none
\* the call returns an empty list, missing series or not
C30_MissingOrShorterFailsUnlessEmpty ==
    DateRangeDone =>
      IF RangeTime # <<>> /\ (MissingSeries # {} \/ ShorterSeries # {})
      THEN InvalidResponseFormat
      ELSE IF RangeTime = <<>>
      THEN fn.exc = NoExc /\ fn.result = <<>>
      ELSE OneRecordPerTimestamp

\* three records were returned for three timestamps; the second has a weather
\* code the table does not know
C30_Witness ==
    /\ DateRangeDone
    /\ fn.exc = NoExc
    /\ Len(fn.result) = 3
    /\ fn.result[1].weather_description = "Clear sky"
    /\ fn.result[2].weather_description = "Unknown weather condition"
    /\ fn.result[3].weather_description = "Thunderstorm"

-----------------------------------------------------------------------------
(* Claims about required keys whose value is null or empty *)

RequiredOf(h) == Range(run_tool_required(h.cls))

\* every required key of the handler of frame v is supplied, one of them with
\* None or ""
NullOrEmptyRequired(v) ==
    /\ v.handler # NoHandler
    /\ RequiredOf(v.handler) \subseteq DOMAIN v.arguments.d
    /\ \E f \in RequiredOf(v.handler) : v.arguments.d[f] \in {PyNone, PyStr("")}

ReportedMissing(v) ==
    v.exc.type = "RuntimeError" /\ v.exc.msg[1] = "Missing required arguments: "

\* C28: validation tests the presence of the required keys only: an invocation
\* whose required keys are all present, one of them with a null or empty value,
\* is not reported as missing arguments and goes on to the logic of its handler,
\* which for the city tools is the geocoding request for that value
C28_PresentNullOrEmptyPasses ==
    \A i \in DOMAIN inv :
      NullOrEmptyRequired(inv[i]) =>
        /\ validate_required_args(inv[i].arguments.d,
                                  run_tool_required(inv[i].handler.cls)) = NoExc
        /\ ~ReportedMissing(inv[i])
        /\ Len(inv[i].log) >= 2
        /\ inv[i].handler.cls \in CityHandlers =>
              /\ Len(inv[i].http) >= 1
              /\ inv[i].http[1] = [api |-> "geocoding",
                                   url |-> <<BASE_GEO_URL, "?name=",
                                             Str(inv[i].arguments.d["city"])>>]
        /\ inv[i].handler.cls = "ConvertTimeToolHandler" => inv[i].tz >= 1

\* get_current_weather was called with the city None and get_air_quality_details
\* with the city "": both wait for the answer to their geocoding request
C28_Witness ==
    /\ inv[1].st = "await_geo"
    /\ inv[1].handler.cls = "GetCurrentWeatherToolHandler"
    /\ inv[1].arguments.d["city"] = PyNone
    /\ inv[1].http = << [api |-> "geocoding", url |-> <<BASE_GEO_URL, "?name=", "None">>] >>
    /\ inv[2].st = "await_geo"
    /\ inv[2].handler.cls = "GetAirQualityDetailsToolHandler"
    /\ inv[2].arguments.d["city"] = PyStr("")
    /\ inv[2].http = << [api |-> "geocoding", url |-> <<BASE_GEO_URL, "?name=", "">>] >>

====
